---------------------------- MODULE Spec2Model ----------------------------
(***************************************************************************)
(* Backtracking puzzle solvers of the arcade repository.                   *)
(*                                                                         *)
(* Peg solitaire:                                                          *)
(*   british/dfs.py                 solve      plain depth-first search    *)
(*   british/bfs-memory-british.py  dfs        depth-first + visited set   *)
(*   visualise/euro-vis.py          solve_dfs  depth-limited + visited set *)
(*   european/search-sep.py         bfs        breadth-first search        *)
(*                                                                         *)
(* A board is a function from cells <<row, col>> to integers: 0 is a void  *)
(* cell, -1 an empty playable cell, a positive number the identifier of a  *)
(* peg.  A move is the Python list [row, col, direction, jumped], written  *)
(* <<row, col, direction, jumped>>; Python index k is TLA+ index k+1.      *)
(* Recursion is modelled by an explicit stack of frames, one per active    *)
(* call, the innermost call last.                                          *)
(***************************************************************************)
EXTENDS Integers, Sequences, FiniteSets, TLC

VARIABLES
    board,      \* the board list shared by the solver object and the module
    moves,      \* self.moves, the stack of applied moves
    stack,      \* call stack of the running recursive search
    retval,     \* value returned by the call that has just returned
    retEntry,   \* history: board and moves on entry of the call that just returned
    visited,    \* the visited set of the running search
    phase,      \* which program runs, and whether it has finished
    initBoard,  \* history: the board the program was started on
    result1,    \* history: result of the first search of a run
    moves1,     \* history: self.moves at the end of the first search of a run
    pending,    \* history: calls of make_move minus calls of undo_move
    pruned,     \* history: some call of the running search hit the visited set
    max_depth,  \* euro-vis.py: the max_depth argument of solve_dfs
    queue,      \* search-sep.py: the deque of bfs
    bfs,        \* search-sep.py: the local variables of bfs and its position
    empties,    \* sudoku/solver.py: the list of the cells that were empty
    rows,       \* sudoku/solver.py: rows[i], the digits present in row i
    cols,       \* sudoku/solver.py: cols[j], the digits present in column j
    boxes,      \* sudoku/solver.py: boxes[b], the digits present in box b
    char_map,   \* hashi.py: the character map read by scan_map
    puzzle,     \* hashi.py: the Puzzle p of main, its islands and bridge list
    heap,       \* hashi.py: the Bridge objects made so far, by identity
    player_position, \* single-player.py: Player.position, the cursor [row, column]
    player_empties, \* single-player.py: the module-level list `empties`
    jumplist,   \* single-player.py: the module-level list `jumplist`
    valids      \* single-player.py: the module-level counter `valids`

vars == <<board, moves, stack, retval, retEntry, visited, phase, initBoard,
          result1, moves1, pending, pruned, max_depth, queue, bfs,
          empties, rows, cols, boxes, char_map, puzzle, heap,
          player_position, player_empties, jumplist, valids>>

\* the variables of the breadth-first program and of the depth-limited one
bfsVars == <<queue, bfs>>

visVars == <<max_depth>>

\* the variables of the sudoku solver
sdkVars == <<empties, rows, cols, boxes>>

\* the variables of the hashiwokakero solver
hashiVars == <<char_map, puzzle, heap>>

\* the variables of the interactive game
playerVars == <<player_position, player_empties, jumplist, valids>>

---------------------------------------------------------------------------
(* Program constants and bounds *)

N == 7

EMPTY == -1

VOID == 0

\* centre cell demanded by is_solved of the british solvers
TargetRow == 3

TargetCol == 3

\* largest number of pegs on an initial board
MaxPegs == 5

\* largest number of empty cells on an initial sudoku board
MaxEmpties == 4

\* hashiwokakero: the grid is GridSide x GridSide, with at most MaxIslands
\* islands that ask for at most MaxDegree bridges each
GridSide == 3

MaxIslands == 5

MaxDegree == 2

\* single-player.py: the game starts with at most MaxPlayerPegs pegs
MaxPlayerPegs == 3

Cells == (0 .. N - 1) \X (0 .. N - 1)

\* cell number k in row-major order, k in 0 .. N*N-1
CellAt(k) == <<k \div N, k % N>>

\* the cross-shaped board of british/dfs.py: 0 marks the void corners
BritishVoid(p) ==
    (p[1] < 2 \/ p[1] > 4) /\ (p[2] < 2 \/ p[2] > 4)

\* the octagonal board of european/search-sep.py and visualise/euro-vis.py
EuropeanVoid(p) ==
    \/ (p[1] = 0 \/ p[1] = 6) /\ (p[2] < 2 \/ p[2] > 4)
    \/ (p[1] = 1 \/ p[1] = 5) /\ (p[2] < 1 \/ p[2] > 5)

\* identifier of the peg an initial board puts on cell p: distinct positive
\* numbers increasing in row-major order, as in the boards of the __main__
\* blocks
PegId(p) == p[1] * N + p[2] + 1

\* Initial pegs are drawn from the top-left quadrant of the board, centre
\* row and column included; every other playable cell starts empty.
Quadrant == {p \in Cells : p[1] <= N \div 2 /\ p[2] <= N \div 2}

BritishBoards ==
    { [p \in Cells |-> IF BritishVoid(p) THEN VOID
                       ELSE IF p \in S THEN PegId(p) ELSE EMPTY] :
      S \in {T \in SUBSET {q \in Quadrant : ~BritishVoid(q)} :
                 Cardinality(T) <= MaxPegs} }

EuropeanBoards ==
    { [p \in Cells |-> IF EuropeanVoid(p) THEN VOID
                       ELSE IF p \in S THEN PegId(p) ELSE EMPTY] :
      S \in {T \in SUBSET {q \in Quadrant : ~EuropeanVoid(q)} :
                 Cardinality(T) <= MaxPegs} }

---------------------------------------------------------------------------
(* british/dfs.py, british/bfs-memory-british.py: the solver's methods *)

RECURSIVE Concat(_)
\* the lists of a list of lists, joined in order
Concat(ss) == IF ss = <<>> THEN <<>> ELSE Head(ss) \o Concat(Tail(ss))

\* the cells in the order of the row-major double loop
\* `for i, row in enumerate(board): for col in range(len(row))`
RowMajor == [k \in 1 .. N * N |-> CellAt(k - 1)]

\* the list `position` built by is_solved
PegPositions(b) ==
    Concat([k \in 1 .. N * N |->
               IF b[RowMajor[k]] > 0 THEN <<RowMajor[k]>> ELSE <<>>])

\* is_solved without the test `position == [[3,3]]`
is_solved_anywhere(b) ==
    LET position == PegPositions(b)
        pegs == Len(position)
    IN  pegs = 1

\* is_solved: one peg, and it stands on the centre cell; the early
\* `return False` after a row and the final implicit None are both falsy
is_solved(b) ==
    LET position == PegPositions(b)
        pegs == Len(position)
    IN  pegs = 1 /\ position = << <<TargetRow, TargetCol>> >>

\* the if/elif chain with the landing tests written `<= 0`: a void cell
\* passes for an empty one
PegMoves_voidLanding(b, i, col) ==
    IF b[<<i, col>>] > 0 THEN
        IF i > 1 /\ b[<<i - 2, col>>] <= 0 /\ b[<<i - 1, col>>] > 0
            THEN << <<i, col, "w", b[<<i - 1, col>>]>> >>
        ELSE IF col > 1 /\ b[<<i, col - 2>>] <= 0 /\ b[<<i, col - 1>>] > 0
            THEN << <<i, col, "a", b[<<i, col - 1>>]>> >>
        ELSE IF i < N - 2 /\ b[<<i + 2, col>>] <= 0 /\ b[<<i + 1, col>>] > 0
            THEN << <<i, col, "s", b[<<i + 1, col>>]>> >>
        ELSE IF col < N - 2 /\ b[<<i, col + 2>>] <= 0 /\ b[<<i, col + 1>>] > 0
            THEN << <<i, col, "d", b[<<i, col + 1>>]>> >>
        ELSE <<>>
    ELSE <<>>

\* the if/elif chain of get_valid_moves for the peg on cell (i, col)
PegMoves(b, i, col) ==
    IF b[<<i, col>>] > 0 THEN
        IF i > 1 /\ b[<<i - 2, col>>] < 0 /\ b[<<i - 1, col>>] > 0
            THEN << <<i, col, "w", b[<<i - 1, col>>]>> >>
        ELSE IF col > 1 /\ b[<<i, col - 2>>] < 0 /\ b[<<i, col - 1>>] > 0
            THEN << <<i, col, "a", b[<<i, col - 1>>]>> >>
        ELSE IF i < N - 2 /\ b[<<i + 2, col>>] < 0 /\ b[<<i + 1, col>>] > 0
            THEN << <<i, col, "s", b[<<i + 1, col>>]>> >>
        ELSE IF col < N - 2 /\ b[<<i, col + 2>>] < 0 /\ b[<<i, col + 1>>] > 0
            THEN << <<i, col, "d", b[<<i, col + 1>>]>> >>
        ELSE <<>>
    ELSE <<>>

get_valid_moves(b) ==
    Concat([k \in 1 .. N * N |-> PegMoves(b, RowMajor[k][1], RowMajor[k][2])])

\* Jump with the last assignment `board[orig] = -1` forgotten: the peg is
\* on its origin and on its landing cell
Jump_keepOrigin(b, orig, over, land) ==
    LET b1 == [b EXCEPT ![over] = -1]
    IN  [b1 EXCEPT ![land] = b1[orig]]

\* Jump with `board[over] = -1` forgotten: the jumped peg stays
Jump_keepJumped(b, orig, over, land) ==
    LET b2 == [b EXCEPT ![land] = b[orig]]
    IN  [b2 EXCEPT ![orig] = -1]

\* the three board assignments of one branch of make_move, in program
\* order: board[over] = -1; board[land] = board[orig]; board[orig] = -1
Jump(b, orig, over, land) ==
    LET b1 == [b EXCEPT ![over] = -1]
        b2 == [b1 EXCEPT ![land] = b1[orig]]
    IN  [b2 EXCEPT ![orig] = -1]

\* make_move with `self.moves.append(move)` forgotten
make_move_noPush(b, ms, move) ==
    LET i == move[1]
        j == move[2]
        nb == CASE move[3] = "w" -> Jump(b, <<i, j>>, <<i - 1, j>>, <<i - 2, j>>)
                [] move[3] = "a" -> Jump(b, <<i, j>>, <<i, j - 1>>, <<i, j - 2>>)
                [] move[3] = "s" -> Jump(b, <<i, j>>, <<i + 1, j>>, <<i + 2, j>>)
                [] move[3] = "d" -> Jump(b, <<i, j>>, <<i, j + 1>>, <<i, j + 2>>)
        nm == CASE move[3] = "w" -> [move EXCEPT ![1] = i - 2]
                [] move[3] = "a" -> [move EXCEPT ![2] = j - 2]
                [] move[3] = "s" -> [move EXCEPT ![1] = i + 2]
                [] move[3] = "d" -> [move EXCEPT ![2] = j + 2]
    IN  [board |-> nb, moves |-> ms, move |-> nm]

\* make_move: pushes the move, jumps, and rewrites the move in place so
\* that it holds the landing cell.  The result gives the new board, the
\* new moves stack and the rewritten move (the list object is shared with
\* the caller's list of valid moves).
make_move(b, ms, move) ==
    LET i == move[1]
        j == move[2]
        nb == CASE move[3] = "w" -> Jump(b, <<i, j>>, <<i - 1, j>>, <<i - 2, j>>)
                [] move[3] = "a" -> Jump(b, <<i, j>>, <<i, j - 1>>, <<i, j - 2>>)
                [] move[3] = "s" -> Jump(b, <<i, j>>, <<i + 1, j>>, <<i + 2, j>>)
                [] move[3] = "d" -> Jump(b, <<i, j>>, <<i, j + 1>>, <<i, j + 2>>)
        nm == CASE move[3] = "w" -> [move EXCEPT ![1] = i - 2]
                [] move[3] = "a" -> [move EXCEPT ![2] = j - 2]
                [] move[3] = "s" -> [move EXCEPT ![1] = i + 2]
                [] move[3] = "d" -> [move EXCEPT ![2] = j + 2]
    IN  [board |-> nb, moves |-> Append(ms, nm), move |-> nm]

\* Unjump with the last assignment forgotten: the jumped peg is not put back
Unjump_noRestore(b, land, over, orig, jumped) ==
    LET b1 == [b EXCEPT ![orig] = b[land]]
    IN  [b1 EXCEPT ![land] = -1]

\* the three board assignments of one branch of undo_move, in program
\* order: board[orig] = board[land]; board[land] = -1; board[over] = move[3]
Unjump(b, land, over, orig, jumped) ==
    LET b1 == [b EXCEPT ![orig] = b[land]]
        b2 == [b1 EXCEPT ![land] = -1]
    IN  [b2 EXCEPT ![over] = jumped]

\* undo_move reading self.moves[-1] instead of popping it
undo_move_noPop(b, ms) ==
    LET move == ms[Len(ms)]
        i == move[1]
        j == move[2]
        nb == CASE move[3] = "w" -> Unjump(b, <<i, j>>, <<i + 1, j>>, <<i + 2, j>>, move[4])
                [] move[3] = "a" -> Unjump(b, <<i, j>>, <<i, j + 1>>, <<i, j + 2>>, move[4])
                [] move[3] = "s" -> Unjump(b, <<i, j>>, <<i - 1, j>>, <<i - 2, j>>, move[4])
                [] move[3] = "d" -> Unjump(b, <<i, j>>, <<i, j - 1>>, <<i, j - 2>>, move[4])
    IN  [board |-> nb, moves |-> ms]

\* undo_move: pops the last move (which holds the landing cell), moves the
\* peg back and restores the jumped peg from move[3].  Called on a
\* non-empty stack only (list.pop raises IndexError otherwise).
undo_move(b, ms) ==
    LET move == ms[Len(ms)]
        i == move[1]
        j == move[2]
        nb == CASE move[3] = "w" -> Unjump(b, <<i, j>>, <<i + 1, j>>, <<i + 2, j>>, move[4])
                [] move[3] = "a" -> Unjump(b, <<i, j>>, <<i, j + 1>>, <<i, j + 2>>, move[4])
                [] move[3] = "s" -> Unjump(b, <<i, j>>, <<i - 1, j>>, <<i - 2, j>>, move[4])
                [] move[3] = "d" -> Unjump(b, <<i, j>>, <<i, j - 1>>, <<i, j - 2>>, move[4])
    IN  [board |-> nb, moves |-> SubSeq(ms, 1, Len(ms) - 1)]

\* encode_board testing `cell != 0` instead of `cell > 0`: empty cells
\* encode as "1" too
encode_board_nonzero(b) ==
    {N * N - 1 - k : k \in {c \in 0 .. N * N - 1 : b[CellAt(c)] # 0}}

\* encode_board with the bit of a peg placed by the identifier of the peg
\* instead of by its cell
encode_board_byId(b) ==
    {N * N - b[CellAt(k)] : k \in {c \in 0 .. N * N - 1 : b[CellAt(c)] > 0}}

\* encode_board: int(bits, 2) of the 49 characters "1" (peg) / "0" (empty
\* or void), most significant first.  The integer is held as the set of
\* the exponents of its binary expansion (it does not fit 32 bits).
encode_board(b) ==
    {N * N - 1 - k : k \in {c \in 0 .. N * N - 1 : b[CellAt(c)] > 0}}

---------------------------------------------------------------------------
(* Call frames *)

\* a frame of solve / dfs on entry; entryBoard and entryMoves are history
NewFrame(b, ms) ==
    [pc |-> "enter", valids |-> <<>>, idx |-> 1, entryBoard |-> b, entryMoves |-> ms]

Top == stack[Len(stack)]

Pop == SubSeq(stack, 1, Len(stack) - 1)

SetTop(f) == [stack EXCEPT ![Len(stack)] = f]

\* history of a returning call: board and moves on its entry, and how many
\* moves its loop has tried
Entry(f) == [board |-> f.entryBoard, moves |-> f.entryMoves, tried |-> f.idx - 1]

NoEntry == [board |-> <<>>, moves |-> <<>>, tried |-> 0]

\* the call that owns frame f returns value v to its caller, or, for the
\* outermost call, to the __main__ block (phase `done`)
Return(f, v, done) ==
    /\ stack' = Pop
    /\ retval' = v
    /\ retEntry' = Entry(f)
    /\ phase' = IF Len(stack) = 1 THEN done ELSE phase

---------------------------------------------------------------------------
(* british/dfs.py: solve *)

\* solve is entered: `if self.is_solved(): return True`, else the list of
\* valid moves is computed for the loop
SolveEnter ==
    /\ phase = "solve" /\ stack # <<>> /\ Top.pc = "enter"
    /\ IF is_solved(board)
       THEN /\ Return(Top, "True", "solveDone")
            /\ result1' = IF Len(stack) = 1 THEN "True" ELSE result1
            /\ moves1' = IF Len(stack) = 1 THEN moves ELSE moves1
       ELSE /\ stack' = SetTop([Top EXCEPT !.pc = "loop",
                                           !.valids = get_valid_moves(board),
                                           !.idx = 1])
            /\ UNCHANGED <<retval, retEntry, phase, result1, moves1>>
    /\ UNCHANGED <<board, moves, visited, initBoard, pending, pruned>>
    /\ UNCHANGED <<bfsVars, visVars, sdkVars, hashiVars, playerVars>>

\* loop body, first half: make_move(move) and the recursive call
SolveMakeMove ==
    /\ phase = "solve" /\ stack # <<>> /\ Top.pc = "loop"
    /\ Top.idx <= Len(Top.valids)
    /\ LET r == make_move(board, moves, Top.valids[Top.idx])
       IN  /\ board' = r.board
           /\ moves' = r.moves
           /\ stack' = Append(SetTop([Top EXCEPT !.pc = "wait",
                                                 !.valids[Top.idx] = r.move]),
                              NewFrame(r.board, r.moves))
    /\ retval' = "none"
    /\ retEntry' = NoEntry
    /\ pending' = pending + 1
    /\ UNCHANGED <<visited, phase, initBoard, result1, moves1, pruned>>
    /\ UNCHANGED <<bfsVars, visVars, sdkVars, hashiVars, playerVars>>

\* the recursive call returned True: `return True`
SolveReturnTrue ==
    /\ phase = "solve" /\ stack # <<>> /\ Top.pc = "wait"
    /\ retval = "True"
    /\ Return(Top, "True", "solveDone")
    /\ result1' = IF Len(stack) = 1 THEN "True" ELSE result1
    /\ moves1' = IF Len(stack) = 1 THEN moves ELSE moves1
    /\ UNCHANGED <<board, moves, visited, initBoard, pending, pruned>>
    /\ UNCHANGED <<bfsVars, visVars, sdkVars, hashiVars, playerVars>>

\* the loop of solve with `self.undo_move()` forgotten
SolveUndo_noUndo ==
    /\ phase = "solve" /\ stack # <<>> /\ Top.pc = "wait"
    /\ retval = "False"
    /\ stack' = SetTop([Top EXCEPT !.pc = "loop", !.idx = Top.idx + 1])
    /\ retval' = "none"
    /\ retEntry' = NoEntry
    /\ UNCHANGED <<board, moves, phase, pending>>
    /\ UNCHANGED <<visited, initBoard, result1, moves1, pruned>>
    /\ UNCHANGED <<bfsVars, visVars, sdkVars, hashiVars, playerVars>>

\* the recursive call returned False: undo_move() and the next iteration
SolveUndo ==
    /\ phase = "solve" /\ stack # <<>> /\ Top.pc = "wait"
    /\ retval = "False"
    /\ IF moves = <<>>
       THEN \* list.pop on an empty list: IndexError ends the program
            /\ phase' = "crashed"
            /\ UNCHANGED <<board, moves, stack>>
       ELSE LET r == undo_move(board, moves)
            IN  /\ board' = r.board
                /\ moves' = r.moves
                /\ stack' = SetTop([Top EXCEPT !.pc = "loop", !.idx = Top.idx + 1])
                /\ phase' = phase
    /\ retval' = "none"
    /\ retEntry' = NoEntry
    /\ pending' = pending - 1
    /\ UNCHANGED <<visited, initBoard, result1, moves1, pruned>>
    /\ UNCHANGED <<bfsVars, visVars, sdkVars, hashiVars, playerVars>>

\* the loop is exhausted: `return False`
SolveExhausted ==
    /\ phase = "solve" /\ stack # <<>> /\ Top.pc = "loop"
    /\ Top.idx > Len(Top.valids)
    /\ Return(Top, "False", "solveDone")
    /\ result1' = IF Len(stack) = 1 THEN "False" ELSE result1
    /\ moves1' = IF Len(stack) = 1 THEN moves ELSE moves1
    /\ UNCHANGED <<board, moves, visited, initBoard, pending, pruned>>
    /\ UNCHANGED <<bfsVars, visVars, sdkVars, hashiVars, playerVars>>

---------------------------------------------------------------------------
(* british/bfs-memory-british.py: dfs(visited) *)

\* __main__ of bfs-memory-british.py on the same initial board:
\* PegSolitaire(board) and game.dfs(), whose first call creates the set
DfsStart ==
    /\ phase = "solveDone"
    /\ board' = initBoard
    /\ moves' = <<>>
    /\ visited' = {}
    /\ stack' = <<NewFrame(initBoard, <<>>)>>
    /\ retval' = "none"
    /\ retEntry' = NoEntry
    /\ phase' = "dfs"
    /\ pending' = 0
    /\ pruned' = FALSE
    /\ UNCHANGED <<initBoard, result1, moves1>>
    /\ UNCHANGED <<bfsVars, visVars, sdkVars, hashiVars, playerVars>>

\* dfs is entered: visited test, visited.add, is_solved test, valid moves
DfsEnter ==
    /\ phase = "dfs" /\ stack # <<>> /\ Top.pc = "enter"
    /\ LET board_state == encode_board(board)
       IN  IF board_state \in visited
           THEN /\ Return(Top, "False", "dfsDone")
                /\ pruned' = TRUE
                /\ UNCHANGED visited
           ELSE /\ visited' = visited \cup {board_state}
                /\ pruned' = pruned
                /\ IF is_solved(board)
                   THEN Return(Top, "True", "dfsDone")
                   ELSE /\ stack' = SetTop([Top EXCEPT !.pc = "loop",
                                                       !.valids = get_valid_moves(board),
                                                       !.idx = 1])
                        /\ UNCHANGED <<retval, retEntry, phase>>
    /\ UNCHANGED <<board, moves, initBoard, result1, moves1, pending>>
    /\ UNCHANGED <<bfsVars, visVars, sdkVars, hashiVars, playerVars>>

\* loop body, first half: make_move(move) and dfs(visited)
DfsMakeMove ==
    /\ phase = "dfs" /\ stack # <<>> /\ Top.pc = "loop"
    /\ Top.idx <= Len(Top.valids)
    /\ LET r == make_move(board, moves, Top.valids[Top.idx])
       IN  /\ board' = r.board
           /\ moves' = r.moves
           /\ stack' = Append(SetTop([Top EXCEPT !.pc = "wait",
                                                 !.valids[Top.idx] = r.move]),
                              NewFrame(r.board, r.moves))
    /\ retval' = "none"
    /\ retEntry' = NoEntry
    /\ pending' = pending + 1
    /\ UNCHANGED <<visited, phase, initBoard, result1, moves1, pruned>>
    /\ UNCHANGED <<bfsVars, visVars, sdkVars, hashiVars, playerVars>>

\* the recursive call returned True: `return True`
DfsReturnTrue ==
    /\ phase = "dfs" /\ stack # <<>> /\ Top.pc = "wait"
    /\ retval = "True"
    /\ Return(Top, "True", "dfsDone")
    /\ UNCHANGED <<board, moves, visited, initBoard, result1, moves1, pending, pruned>>
    /\ UNCHANGED <<bfsVars, visVars, sdkVars, hashiVars, playerVars>>

\* the recursive call returned False: undo_move() and the next iteration
DfsUndo ==
    /\ phase = "dfs" /\ stack # <<>> /\ Top.pc = "wait"
    /\ retval = "False"
    /\ IF moves = <<>>
       THEN /\ phase' = "crashed"
            /\ UNCHANGED <<board, moves, stack>>
       ELSE LET r == undo_move(board, moves)
            IN  /\ board' = r.board
                /\ moves' = r.moves
                /\ stack' = SetTop([Top EXCEPT !.pc = "loop", !.idx = Top.idx + 1])
                /\ phase' = phase
    /\ retval' = "none"
    /\ retEntry' = NoEntry
    /\ pending' = pending - 1
    /\ UNCHANGED <<visited, initBoard, result1, moves1, pruned>>
    /\ UNCHANGED <<bfsVars, visVars, sdkVars, hashiVars, playerVars>>

\* the loop is exhausted: `return False`
DfsExhausted ==
    /\ phase = "dfs" /\ stack # <<>> /\ Top.pc = "loop"
    /\ Top.idx > Len(Top.valids)
    /\ Return(Top, "False", "dfsDone")
    /\ UNCHANGED <<board, moves, visited, initBoard, result1, moves1, pending, pruned>>
    /\ UNCHANGED <<bfsVars, visVars, sdkVars, hashiVars, playerVars>>

---------------------------------------------------------------------------
(* The british solvers, run one after the other on the same initial board *)

\* values of the variables a program does not use
NoBfs == [pc |-> "off"]

Init ==
    /\ initBoard \in BritishBoards
    /\ board = initBoard
    /\ moves = <<>>
    /\ stack = <<NewFrame(initBoard, <<>>)>>
    /\ retval = "none"
    /\ retEntry = NoEntry
    /\ visited = {}
    /\ phase = "solve"
    /\ result1 = "none"
    /\ moves1 = <<>>
    /\ pending = 0
    /\ pruned = FALSE
    /\ max_depth = 0
    /\ queue = <<>>
    /\ bfs = NoBfs
    /\ empties = <<>> /\ rows = <<>> /\ cols = <<>> /\ boxes = <<>>
    /\ char_map = <<>>
    /\ puzzle = <<>>
    /\ heap = <<>>
    /\ player_position = <<>> /\ player_empties = <<>> /\ jumplist = <<>> /\ valids = 0

Next ==
    \/ SolveEnter
    \/ SolveMakeMove
    \/ SolveReturnTrue
    \/ SolveUndo
    \/ SolveExhausted
    \/ DfsStart
    \/ DfsEnter
    \/ DfsMakeMove
    \/ DfsReturnTrue
    \/ DfsUndo
    \/ DfsExhausted

Spec == Init /\ [][Next]_vars

---------------------------------------------------------------------------
(* visualise/euro-vis.py: the depth-limited search with a visited set *)

DigitChar == <<"0", "1", "2", "3", "4", "5", "6", "7", "8", "9">>

RECURSIVE Digits(_)
Digits(n) ==
    IF n < 10 THEN <<DigitChar[n + 1]>>
    ELSE Digits(n \div 10) \o <<DigitChar[(n % 10) + 1]>>

\* Python's str of an integer, as its sequence of characters
Str(x) == IF x < 0 THEN <<"-">> \o Digits(-x) ELSE Digits(x)

FlatCell(b, i, col) == Str(b[<<i, col>>])

\* make_node_id: the decimal texts of the 49 cells joined without a
\* separator, then hashed.  The node id stands for the joined text: the
\* eight hex digits of the md5 digest are taken to differ for differing
\* texts.
make_node_id(b) ==
    Concat([k \in 1 .. N * N |-> FlatCell(b, RowMajor[k][1], RowMajor[k][2])])

\* is_solved of euro-vis.py: exactly one peg, wherever it stands
vis_is_solved(b) ==
    LET pegs == Len(PegPositions(b)) IN pegs = 1

\* the four independent `if`s of get_valid_moves for the peg on (i, j)
AllPegMoves(b, i, j) ==
    IF b[<<i, j>>] > 0 THEN
           (IF i > 1 /\ b[<<i - 2, j>>] < 0 /\ b[<<i - 1, j>>] > 0
            THEN << <<i, j, "w", b[<<i - 1, j>>]>> >> ELSE <<>>)
        \o (IF j > 1 /\ b[<<i, j - 2>>] < 0 /\ b[<<i, j - 1>>] > 0
            THEN << <<i, j, "a", b[<<i, j - 1>>]>> >> ELSE <<>>)
        \o (IF i < N - 2 /\ b[<<i + 2, j>>] < 0 /\ b[<<i + 1, j>>] > 0
            THEN << <<i, j, "s", b[<<i + 1, j>>]>> >> ELSE <<>>)
        \o (IF j < N - 2 /\ b[<<i, j + 2>>] < 0 /\ b[<<i, j + 1>>] > 0
            THEN << <<i, j, "d", b[<<i, j + 1>>]>> >> ELSE <<>>)
    ELSE <<>>

vis_get_valid_moves(b) ==
    Concat([k \in 1 .. N * N |-> AllPegMoves(b, RowMajor[k][1], RowMajor[k][2])])

\* make_move of euro-vis.py: i, j, direction are read from the move first
vis_make_move(b, ms, move) ==
    LET i == move[1]
        j == move[2]
        direction == move[3]
    IN  IF direction = "w" THEN
            [board |-> Jump(b, <<i, j>>, <<i - 1, j>>, <<i - 2, j>>),
             moves |-> Append(ms, [move EXCEPT ![1] = i - 2]),
             move |-> [move EXCEPT ![1] = i - 2]]
        ELSE IF direction = "a" THEN
            [board |-> Jump(b, <<i, j>>, <<i, j - 1>>, <<i, j - 2>>),
             moves |-> Append(ms, [move EXCEPT ![2] = j - 2]),
             move |-> [move EXCEPT ![2] = j - 2]]
        ELSE IF direction = "s" THEN
            [board |-> Jump(b, <<i, j>>, <<i + 1, j>>, <<i + 2, j>>),
             moves |-> Append(ms, [move EXCEPT ![1] = i + 2]),
             move |-> [move EXCEPT ![1] = i + 2]]
        ELSE IF direction = "d" THEN
            [board |-> Jump(b, <<i, j>>, <<i, j + 1>>, <<i, j + 2>>),
             moves |-> Append(ms, [move EXCEPT ![2] = j + 2]),
             move |-> [move EXCEPT ![2] = j + 2]]
        ELSE [board |-> b, moves |-> Append(ms, move), move |-> move]

\* undo_move of euro-vis.py
vis_undo_move(b, ms) ==
    LET move == ms[Len(ms)]
        i == move[1]
        j == move[2]
        direction == move[3]
        jumped_value == move[4]
        nb == IF direction = "w"
                  THEN Unjump(b, <<i, j>>, <<i + 1, j>>, <<i + 2, j>>, jumped_value)
              ELSE IF direction = "a"
                  THEN Unjump(b, <<i, j>>, <<i, j + 1>>, <<i, j + 2>>, jumped_value)
              ELSE IF direction = "s"
                  THEN Unjump(b, <<i, j>>, <<i - 1, j>>, <<i - 2, j>>, jumped_value)
              ELSE IF direction = "d"
                  THEN Unjump(b, <<i, j>>, <<i, j - 1>>, <<i, j - 2>>, jumped_value)
              ELSE b
    IN  [board |-> nb, moves |-> SubSeq(ms, 1, Len(ms) - 1)]

\* the default of the max_depth argument, and the value __main__ passes
DefaultMaxDepth == 4

MainMaxDepth == 3

\* a frame of solve_dfs(depth, max_depth) on entry
VisFrame(b, ms, depth) ==
    [pc |-> "enter", valids |-> <<>>, idx |-> 1, depth |-> depth,
     entryBoard |-> b, entryMoves |-> ms]

VisRunning == phase \in {"vis1", "vis2"}

\* the call that owns frame f returns v; the outermost call returns to the
\* caller of the search
VisReturn(f, v) ==
    /\ stack' = Pop
    /\ retval' = v
    /\ retEntry' = Entry(f)
    /\ phase' = IF Len(stack) > 1 THEN phase
                ELSE IF phase = "vis1" THEN "vis1Done" ELSE "vis2Done"
    /\ result1' = IF Len(stack) = 1 /\ phase = "vis1" THEN v ELSE result1
    /\ moves1' = IF Len(stack) = 1 /\ phase = "vis1" THEN moves ELSE moves1

\* VisEnter with the depth test written `depth > max_depth`
VisEnter_depthOffByOne ==
    /\ VisRunning /\ stack # <<>> /\ Top.pc = "enter"
    /\ LET node_id == make_node_id(board)
       IN  IF node_id \in visited
           THEN /\ VisReturn(Top, "False")
                /\ pruned' = TRUE
                /\ UNCHANGED visited
           ELSE /\ visited' = visited \cup {node_id}
                /\ pruned' = pruned
                /\ IF vis_is_solved(board) THEN VisReturn(Top, "True")
                   ELSE IF Top.depth > max_depth THEN VisReturn(Top, "False")
                   ELSE /\ stack' = SetTop([Top EXCEPT !.pc = "loop",
                                               !.valids = vis_get_valid_moves(board),
                                               !.idx = 1])
                        /\ UNCHANGED <<retval, retEntry, phase, result1, moves1>>
    /\ UNCHANGED <<board, moves, initBoard, pending>>
    /\ UNCHANGED <<bfsVars, visVars, sdkVars, hashiVars, playerVars>>

\* solve_dfs is entered: visited test and insertion, is_solved test, depth
\* test, then the list of valid moves for the loop
VisEnter ==
    /\ VisRunning /\ stack # <<>> /\ Top.pc = "enter"
    /\ LET node_id == make_node_id(board)
       IN  IF node_id \in visited
           THEN /\ VisReturn(Top, "False")
                /\ pruned' = TRUE
                /\ UNCHANGED visited
           ELSE /\ visited' = visited \cup {node_id}
                /\ pruned' = pruned
                /\ IF vis_is_solved(board) THEN VisReturn(Top, "True")
                   ELSE IF Top.depth >= max_depth THEN VisReturn(Top, "False")
                   ELSE /\ stack' = SetTop([Top EXCEPT !.pc = "loop",
                                               !.valids = vis_get_valid_moves(board),
                                               !.idx = 1])
                        /\ UNCHANGED <<retval, retEntry, phase, result1, moves1>>
    /\ UNCHANGED <<board, moves, initBoard, pending>>
    /\ UNCHANGED <<bfsVars, visVars, sdkVars, hashiVars, playerVars>>

\* loop body, first half: make_move(move) and solve_dfs(depth + 1, max_depth)
VisMakeMove ==
    /\ VisRunning /\ stack # <<>> /\ Top.pc = "loop"
    /\ Top.idx <= Len(Top.valids)
    /\ LET r == vis_make_move(board, moves, Top.valids[Top.idx])
       IN  /\ board' = r.board
           /\ moves' = r.moves
           /\ stack' = Append(SetTop([Top EXCEPT !.pc = "wait",
                                                 !.valids[Top.idx] = r.move]),
                              VisFrame(r.board, r.moves, Top.depth + 1))
    /\ retval' = "none"
    /\ retEntry' = NoEntry
    /\ pending' = pending + 1
    /\ UNCHANGED <<visited, phase, initBoard, result1, moves1, pruned>>
    /\ UNCHANGED <<bfsVars, visVars, sdkVars, hashiVars, playerVars>>

\* the recursive call returned True: `return True`
VisReturnTrue ==
    /\ VisRunning /\ stack # <<>> /\ Top.pc = "wait"
    /\ retval = "True"
    /\ VisReturn(Top, "True")
    /\ UNCHANGED <<board, moves, visited, initBoard, pending, pruned>>
    /\ UNCHANGED <<bfsVars, visVars, sdkVars, hashiVars, playerVars>>

\* the recursive call returned False: undo_move() and the next iteration
VisUndo ==
    /\ VisRunning /\ stack # <<>> /\ Top.pc = "wait"
    /\ retval = "False"
    /\ IF moves = <<>>
       THEN /\ phase' = "crashed"
            /\ UNCHANGED <<board, moves, stack>>
       ELSE LET r == vis_undo_move(board, moves)
            IN  /\ board' = r.board
                /\ moves' = r.moves
                /\ stack' = SetTop([Top EXCEPT !.pc = "loop", !.idx = Top.idx + 1])
                /\ phase' = phase
    /\ retval' = "none"
    /\ retEntry' = NoEntry
    /\ pending' = pending - 1
    /\ UNCHANGED <<visited, initBoard, result1, moves1, pruned>>
    /\ UNCHANGED <<bfsVars, visVars, sdkVars, hashiVars, playerVars>>

\* the loop is exhausted: `return False`
VisExhausted ==
    /\ VisRunning /\ stack # <<>> /\ Top.pc = "loop"
    /\ Top.idx > Len(Top.valids)
    /\ VisReturn(Top, "False")
    /\ UNCHANGED <<board, moves, visited, initBoard, pending, pruned>>
    /\ UNCHANGED <<bfsVars, visVars, sdkVars, hashiVars, playerVars>>

\* the caller puts the initial position back on the board of the same
\* solver object, empties its move list and calls solve_dfs again;
\* self.visited is the set made by __init__
VisSearchAgain ==
    /\ phase = "vis1Done"
    /\ board' = initBoard
    /\ moves' = <<>>
    /\ stack' = <<VisFrame(initBoard, <<>>, 0)>>
    /\ retval' = "none"
    /\ retEntry' = NoEntry
    /\ phase' = "vis2"
    /\ pending' = 0
    /\ pruned' = FALSE
    /\ UNCHANGED <<visited, initBoard, result1, moves1>>
    /\ UNCHANGED <<bfsVars, visVars, sdkVars, hashiVars, playerVars>>

\* PegSolitaire(board) of euro-vis.py and the first call solve_dfs(0, max_depth)
VisInit ==
    /\ initBoard \in EuropeanBoards
    /\ board = initBoard
    /\ moves = <<>>
    /\ stack = <<VisFrame(initBoard, <<>>, 0)>>
    /\ retval = "none"
    /\ retEntry = NoEntry
    /\ visited = {}
    /\ phase = "vis1"
    /\ result1 = "none"
    /\ moves1 = <<>>
    /\ pending = 0
    /\ pruned = FALSE
    /\ max_depth \in {DefaultMaxDepth, MainMaxDepth}
    /\ queue = <<>>
    /\ bfs = NoBfs
    /\ empties = <<>> /\ rows = <<>> /\ cols = <<>> /\ boxes = <<>>
    /\ char_map = <<>>
    /\ puzzle = <<>>
    /\ heap = <<>>
    /\ player_position = <<>> /\ player_empties = <<>> /\ jumplist = <<>> /\ valids = 0

VisNext ==
    \/ VisEnter
    \/ VisMakeMove
    \/ VisReturnTrue
    \/ VisUndo
    \/ VisExhausted
    \/ VisSearchAgain

SpecVis == VisInit /\ [][VisNext]_vars

---------------------------------------------------------------------------
(* european/search-sep.py: bfs.  The methods of its PegSolitaire class    *)
(* read and write the module-level name `board`, which is the list the    *)
(* root object was built on; `self.board` is read by bfs only.            *)

\* is_solved of search-sep.py: exactly one peg on the module-level board
sep_is_solved(b) ==
    LET pegs == Len(PegPositions(b)) IN pegs = 1

\* get_valid_moves of search-sep.py: four independent `if`s per peg
sep_get_valid_moves(b) ==
    Concat([k \in 1 .. N * N |-> AllPegMoves(b, RowMajor[k][1], RowMajor[k][2])])

\* str(board): the decimal text of every cell, row by row
BoardStr(b) == [i \in 1 .. N |-> [j \in 1 .. N |-> Str(b[<<i - 1, j - 1>>])]]

NoResult == [none |-> TRUE, moves |-> <<>>]

\* BfsStart with `visited.add(str(deepcopy(root.board)))` forgotten
BfsStart_emptyVisited ==
    /\ phase = "bfs" /\ bfs.pc = "start"
    /\ queue' = <<[board |-> board, moves |-> moves, lvl |-> 0, idx |-> 0]>>
    /\ visited' = {}
    /\ bfs' = [bfs EXCEPT !.pc = "while", !.lvl = 0, !.idx = 0]
    /\ UNCHANGED <<board, moves, stack, retval, retEntry, phase, initBoard,
                   result1, moves1, pending, pruned, visVars, sdkVars, hashiVars, playerVars>>

\* lines 125-129: the queue holds a copy of the root, visited its board text
BfsStart ==
    /\ phase = "bfs" /\ bfs.pc = "start"
    /\ queue' = <<[board |-> board, moves |-> moves, lvl |-> 0, idx |-> 0]>>
    /\ visited' = {BoardStr(board)}
    /\ bfs' = [bfs EXCEPT !.pc = "while", !.lvl = 0, !.idx = 0]
    /\ UNCHANGED <<board, moves, stack, retval, retEntry, phase, initBoard,
                   result1, moves1, pending, pruned, visVars, sdkVars, hashiVars, playerVars>>

\* one turn of `while queue`: popleft, the is_solved test (on the
\* module-level board) and, failing that, the list of valid moves
BfsDequeue ==
    /\ phase = "bfs" /\ bfs.pc = "while" /\ queue # <<>>
    /\ queue' = Tail(queue)
    /\ LET curr_board == Head(queue)
       IN  IF sep_is_solved(board)
           THEN /\ moves' = curr_board.moves
                /\ bfs' = [bfs EXCEPT !.pc = "done", !.lvl = bfs.lvl + 1,
                                      !.curr = curr_board,
                                      !.result = [none |-> FALSE,
                                                  moves |-> curr_board.moves]]
           ELSE /\ moves' = moves
                /\ bfs' = [bfs EXCEPT !.pc = "for", !.lvl = bfs.lvl + 1,
                                      !.curr = curr_board,
                                      !.valids = sep_get_valid_moves(board),
                                      !.k = 1]
    /\ UNCHANGED <<board, stack, retval, retEntry, visited, phase, initBoard,
                   result1, moves1, pending, pruned, visVars, sdkVars, hashiVars, playerVars>>

\* one turn of `for move in curr_board.get_valid_moves()`: the neighbour
\* is built from copies of curr_board.board and curr_board.moves, its
\* make_move writes the module-level board and its own move list, and it is
\* enqueued if the text of its own board is new
BfsExpand ==
    /\ phase = "bfs" /\ bfs.pc = "for" /\ bfs.k <= Len(bfs.valids)
    /\ LET r == make_move(board, bfs.curr.moves, bfs.valids[bfs.k])
           neighbour_board == [board |-> bfs.curr.board, moves |-> r.moves,
                               lvl |-> bfs.lvl, idx |-> bfs.idx]
           board_str == BoardStr(neighbour_board.board)
       IN  /\ board' = r.board
           /\ IF board_str \notin visited
              THEN /\ visited' = visited \cup {board_str}
                   /\ queue' = Append(queue, neighbour_board)
              ELSE UNCHANGED <<visited, queue>>
           /\ bfs' = [bfs EXCEPT !.idx = bfs.idx + 1, !.k = bfs.k + 1,
                                 !.valids[bfs.k] = r.move]
    /\ pending' = pending + 1
    /\ UNCHANGED <<moves, stack, retval, retEntry, phase, initBoard,
                   result1, moves1, pruned, visVars, sdkVars, hashiVars, playerVars>>

\* the for loop is over: back to `while queue`
BfsLoopEnd ==
    /\ phase = "bfs" /\ bfs.pc = "for" /\ bfs.k > Len(bfs.valids)
    /\ bfs' = [bfs EXCEPT !.pc = "while"]
    /\ UNCHANGED <<board, moves, stack, retval, retEntry, visited, phase,
                   initBoard, result1, moves1, pending, pruned, queue, visVars, sdkVars, hashiVars, playerVars>>

\* the queue is empty: `return None`
BfsFail ==
    /\ phase = "bfs" /\ bfs.pc = "while" /\ queue = <<>>
    /\ bfs' = [bfs EXCEPT !.pc = "done", !.result = NoResult]
    /\ UNCHANGED <<board, moves, stack, retval, retEntry, visited, phase,
                   initBoard, result1, moves1, pending, pruned, queue, visVars, sdkVars, hashiVars, playerVars>>

\* __main__ of search-sep.py: game = PegSolitaire(board, [], 0, 0); bfs(game)
BfsInit ==
    /\ initBoard \in EuropeanBoards
    /\ board = initBoard
    /\ moves = <<>>
    /\ stack = <<>>
    /\ retval = "none"
    /\ retEntry = NoEntry
    /\ visited = {}
    /\ phase = "bfs"
    /\ result1 = "none"
    /\ moves1 = <<>>
    /\ pending = 0
    /\ pruned = FALSE
    /\ max_depth = 0
    /\ queue = <<>>
    /\ bfs = [pc |-> "start", lvl |-> 0, idx |-> 0,
              curr |-> [board |-> initBoard, moves |-> <<>>, lvl |-> 0, idx |-> 0],
              valids |-> <<>>, k |-> 1, result |-> NoResult]
    /\ empties = <<>> /\ rows = <<>> /\ cols = <<>> /\ boxes = <<>>
    /\ char_map = <<>>
    /\ puzzle = <<>>
    /\ heap = <<>>
    /\ player_position = <<>> /\ player_empties = <<>> /\ jumplist = <<>> /\ valids = 0

BfsNext ==
    \/ BfsStart
    \/ BfsDequeue
    \/ BfsExpand
    \/ BfsLoopEnd
    \/ BfsFail

SpecBfs == BfsInit /\ [][BfsNext]_vars

---------------------------------------------------------------------------
(* sudoku/solver.py: Solution.solveSudoku on a 9x9 board.  A board is a     *)
(* function from cells <<row, col>> to the characters "1" .. "9" and ".".   *)

\* N = len(board)
SudokuN == 9

\* the literal 3 of `(r // 3) * 3 + (c // 3)`: the side of a box
BoxSide == 3

SudokuCells == (0 .. SudokuN - 1) \X (0 .. SudokuN - 1)

\* the characters of "123456789", in the order `for d in "123456789"`
DigitsInOrder == SubSeq(DigitChar, 2, SudokuN + 1)

DigitSet == {DigitsInOrder[n] : n \in 1 .. SudokuN}

\* the box index `(r // 3) * 3 + (c // 3)`
BoxOf(r, c) == (r \div BoxSide) * BoxSide + (c \div BoxSide)

\* the rows of a completed grid, each written as a decimal number
SolvedRows ==
    <<586492371, 971385642, 243176985,
      719628534, 365941728, 824753196,
      192867453, 657234819, 438519267>>

RECURSIVE Pow10(_)
Pow10(n) == IF n = 0 THEN 1 ELSE 10 * Pow10(n - 1)

SolvedBoard ==
    [q \in SudokuCells |->
        DigitChar[((SolvedRows[q[1] + 1] \div Pow10(SudokuN - 1 - q[2])) % 10) + 1]]

\* Cells of an initial board may be emptied, or hold another digit, in the
\* top-left box and the column next to it.
SudokuRegion == {q \in SudokuCells : q[1] < BoxSide /\ q[2] <= BoxSide}

\* for every cell, the cells that share a row, a column or a box with it
PeersOf ==
    [q \in SudokuCells |->
        {x \in SudokuCells :
            /\ x # q
            /\ \/ x[1] = q[1]
               \/ x[2] = q[2]
               \/ BoxOf(x[1], x[2]) = BoxOf(q[1], q[2])}]

Peers(q) == PeersOf[q]

Blanked(E) == [q \in SudokuCells |-> IF q \in E THEN "." ELSE SolvedBoard[q]]

\* the changes of one cell of the region to another digit, each with the
\* cells that must be empty for the change to repeat no digit: the peers of
\* the cell that hold that digit in the completed grid
Changes ==
    { [cell |-> xd[1], digit |-> xd[2],
       holders |-> {y : y \in {z \in Peers(xd[1]) : SolvedBoard[z] = xd[2]}}] :
      xd \in {yd \in SudokuRegion \X DigitSet : SolvedBoard[yd[1]] # yd[2]} }

\* Initial boards: the completed grid with at most MaxEmpties cells emptied
\* and, possibly, one more cell changed to a digit that its row, column and
\* box do not hold.  No digit is repeated in a row, a column or a box; some
\* of the boards have no completion, some have several.
SudokuBoards ==
    UNION { {Blanked(E)} \cup
            { [Blanked(E) EXCEPT ![ch.cell] = ch.digit] :
              ch \in {x \in Changes : x.cell \notin E /\ x.holders \subseteq E} } :
            E \in {T \in SUBSET SudokuRegion : Cardinality(T) <= MaxEmpties} }

\* the cells in the order of `for i, row in enumerate(board): for j, val in
\* enumerate(row)`
SudokuRowMajor ==
    [k \in 1 .. SudokuN * SudokuN |-> <<(k - 1) \div SudokuN, (k - 1) % SudokuN>>]

\* find_empties, started on empty `empties`, rows, cols and boxes: the
\* empty cells in row-major order, and the digits of every row, column and
\* box
find_empties(b) ==
    [empties |-> Concat([k \in 1 .. SudokuN * SudokuN |->
                            IF b[SudokuRowMajor[k]] = "."
                            THEN <<SudokuRowMajor[k]>> ELSE <<>>]),
     rows |-> [i \in 0 .. SudokuN - 1 |->
                  {b[q] : q \in {x \in SudokuCells : x[1] = i /\ b[x] # "."}}],
     cols |-> [j \in 0 .. SudokuN - 1 |->
                  {b[q] : q \in {x \in SudokuCells : x[2] = j /\ b[x] # "."}}],
     boxes |-> [n \in 0 .. SudokuN - 1 |->
                  {b[q] : q \in {x \in SudokuCells :
                                    BoxOf(x[1], x[2]) = n /\ b[x] # "."}}]]

\* validMove without the test `d not in cols[c]`
validMove_noColumn(board_state, pos) ==
    LET r == pos[1]
        c == pos[2]
        b == BoxOf(r, c)
    IN  Concat([n \in 1 .. SudokuN |->
                  LET d == DigitsInOrder[n]
                  IN  IF d \notin rows[r] /\ d \notin boxes[b]
                      THEN <<d>> ELSE <<>>])

\* validMove going through the digits from "9" down to "1"
validMove_descending(board_state, pos) ==
    LET r == pos[1]
        c == pos[2]
        b == BoxOf(r, c)
    IN  Concat([n \in 1 .. SudokuN |->
                  LET d == DigitsInOrder[SudokuN + 1 - n]
                  IN  IF d \notin rows[r] /\ d \notin cols[c] /\ d \notin boxes[b]
                      THEN <<d>> ELSE <<>>])

\* validMove: the digits, in ascending order, that are in none of rows[r],
\* cols[c] and boxes[b]; the board_state argument is not read
validMove(board_state, pos) ==
    LET r == pos[1]
        c == pos[2]
        b == BoxOf(r, c)
    IN  Concat([n \in 1 .. SudokuN |->
                  LET d == DigitsInOrder[n]
                  IN  IF d \notin rows[r] /\ d \notin cols[c] /\ d \notin boxes[b]
                      THEN <<d>> ELSE <<>>])

\* a frame of dfs_rec(idx) on entry; k is the position of the for loop in
\* valids, entry is history
SdkFrame(idx, b, rs, cs, bs) ==
    [pc |-> "enter", idx |-> idx, valids |-> <<>>, k |-> 1,
     entry |-> [board |-> b, rows |-> rs, cols |-> cs, boxes |-> bs]]

\* the call that owns frame f returns v; the outermost call returns to
\* solveSudoku
SdkReturn(f, v) ==
    /\ stack' = Pop
    /\ retval' = v
    /\ retEntry' = [board |-> f.entry.board, rows |-> f.entry.rows,
                    cols |-> f.entry.cols, boxes |-> f.entry.boxes,
                    tried |-> f.k - 1]
    /\ phase' = IF Len(stack) = 1 THEN "sdkDone" ELSE phase

\* the variables that solveSudoku does not touch
pegVars == <<moves, visited, initBoard, result1, moves1, pending, pruned>>

\* lines 108-109: find_empties() and the call dfs_rec(0)
SdkFindEmpties ==
    /\ phase = "sdkStart"
    /\ \E fe \in {find_empties(board)} :
           /\ empties' = fe.empties
           /\ rows' = fe.rows
           /\ cols' = fe.cols
           /\ boxes' = fe.boxes
           /\ stack' = <<SdkFrame(0, board, fe.rows, fe.cols, fe.boxes)>>
    /\ phase' = "sdk"
    /\ UNCHANGED <<board, retval, retEntry>>
    /\ UNCHANGED <<pegVars, bfsVars, visVars, hashiVars, playerVars>>

\* dfs_rec is entered: `if idx == len(empties): return True`; a cell that
\* is no longer empty hands over to dfs_rec(idx + 1), whose result is
\* returned as it is; otherwise the candidates of the cell are listed
SdkEnter ==
    /\ phase = "sdk" /\ stack # <<>> /\ Top.pc = "enter"
    /\ IF Top.idx = Len(empties)
       THEN SdkReturn(Top, "True")
       ELSE /\ stack' =
                  IF board[empties[Top.idx + 1]] # "."
                  THEN SetTop([Top EXCEPT !.idx = Top.idx + 1])
                  ELSE SetTop([Top EXCEPT
                                 !.pc = "loop",
                                 !.valids = validMove(board, empties[Top.idx + 1]),
                                 !.k = 1])
            /\ UNCHANGED <<retval, retEntry, phase>>
    /\ UNCHANGED <<board, sdkVars>>
    /\ UNCHANGED <<pegVars, bfsVars, visVars, hashiVars, playerVars>>

\* SdkPlace with `board[r][c] = move` forgotten
SdkPlace_noWrite ==
    /\ phase = "sdk" /\ stack # <<>> /\ Top.pc = "loop"
    /\ Top.k <= Len(Top.valids)
    /\ LET r == empties[Top.idx + 1][1]
           c == empties[Top.idx + 1][2]
           b == BoxOf(r, c)
           move == Top.valids[Top.k]
       IN  /\ board' = board
           /\ rows' = [rows EXCEPT ![r] = @ \cup {move}]
           /\ cols' = [cols EXCEPT ![c] = @ \cup {move}]
           /\ boxes' = [boxes EXCEPT ![b] = @ \cup {move}]
           /\ stack' = Append(SetTop([Top EXCEPT !.pc = "wait"]),
                              SdkFrame(Top.idx + 1, board', rows', cols', boxes'))
    /\ retval' = "none"
    /\ retEntry' = NoEntry
    /\ UNCHANGED <<phase, empties>>
    /\ UNCHANGED <<pegVars, bfsVars, visVars, hashiVars, playerVars>>

\* loop body, first half: place the digit and call dfs_rec(idx + 1)
SdkPlace ==
    /\ phase = "sdk" /\ stack # <<>> /\ Top.pc = "loop"
    /\ Top.k <= Len(Top.valids)
    /\ LET r == empties[Top.idx + 1][1]
           c == empties[Top.idx + 1][2]
           b == BoxOf(r, c)
           move == Top.valids[Top.k]
       IN  /\ board' = [board EXCEPT ![<<r, c>>] = move]
           /\ rows' = [rows EXCEPT ![r] = @ \cup {move}]
           /\ cols' = [cols EXCEPT ![c] = @ \cup {move}]
           /\ boxes' = [boxes EXCEPT ![b] = @ \cup {move}]
           /\ stack' = Append(SetTop([Top EXCEPT !.pc = "wait"]),
                              SdkFrame(Top.idx + 1, board', rows', cols', boxes'))
    /\ retval' = "none"
    /\ retEntry' = NoEntry
    /\ UNCHANGED <<phase, empties>>
    /\ UNCHANGED <<pegVars, bfsVars, visVars, hashiVars, playerVars>>

\* the recursive call returned True: `return True`
SdkReturnTrue ==
    /\ phase = "sdk" /\ stack # <<>> /\ Top.pc = "wait"
    /\ retval = "True"
    /\ SdkReturn(Top, "True")
    /\ UNCHANGED <<board, sdkVars>>
    /\ UNCHANGED <<pegVars, bfsVars, visVars, hashiVars, playerVars>>

\* SdkUndo with `rows[r].remove(move)` forgotten
SdkUndo_keepRow ==
    /\ phase = "sdk" /\ stack # <<>> /\ Top.pc = "wait"
    /\ retval = "False"
    /\ LET r == empties[Top.idx + 1][1]
           c == empties[Top.idx + 1][2]
           b == BoxOf(r, c)
           move == Top.valids[Top.k]
           inRow == move \in rows[r]
           inCol == inRow /\ move \in cols[c]
           inBox == inCol /\ move \in boxes[b]
       IN  /\ board' = [board EXCEPT ![<<r, c>>] = "."]
           /\ rows' = rows
           /\ cols' = IF inCol THEN [cols EXCEPT ![c] = @ \ {move}] ELSE cols
           /\ boxes' = IF inBox THEN [boxes EXCEPT ![b] = @ \ {move}] ELSE boxes
           /\ stack' = IF inBox
                       THEN SetTop([Top EXCEPT !.pc = "loop", !.k = Top.k + 1])
                       ELSE stack
           /\ phase' = IF inBox THEN phase ELSE "crashed"
    /\ retval' = "none"
    /\ retEntry' = NoEntry
    /\ UNCHANGED empties
    /\ UNCHANGED <<pegVars, bfsVars, visVars, hashiVars, playerVars>>

\* SdkUndo with `board[r][c] = '.'` forgotten
SdkUndo_keepCell ==
    /\ phase = "sdk" /\ stack # <<>> /\ Top.pc = "wait"
    /\ retval = "False"
    /\ LET r == empties[Top.idx + 1][1]
           c == empties[Top.idx + 1][2]
           b == BoxOf(r, c)
           move == Top.valids[Top.k]
           inRow == move \in rows[r]
           inCol == inRow /\ move \in cols[c]
           inBox == inCol /\ move \in boxes[b]
       IN  /\ board' = board
           /\ rows' = IF inRow THEN [rows EXCEPT ![r] = @ \ {move}] ELSE rows
           /\ cols' = IF inCol THEN [cols EXCEPT ![c] = @ \ {move}] ELSE cols
           /\ boxes' = IF inBox THEN [boxes EXCEPT ![b] = @ \ {move}] ELSE boxes
           /\ stack' = IF inBox
                       THEN SetTop([Top EXCEPT !.pc = "loop", !.k = Top.k + 1])
                       ELSE stack
           /\ phase' = IF inBox THEN phase ELSE "crashed"
    /\ retval' = "none"
    /\ retEntry' = NoEntry
    /\ UNCHANGED empties
    /\ UNCHANGED <<pegVars, bfsVars, visVars, hashiVars, playerVars>>

\* the recursive call returned False: undo and the next iteration;
\* set.remove of a digit that is not in the set raises KeyError
SdkUndo ==
    /\ phase = "sdk" /\ stack # <<>> /\ Top.pc = "wait"
    /\ retval = "False"
    /\ LET r == empties[Top.idx + 1][1]
           c == empties[Top.idx + 1][2]
           b == BoxOf(r, c)
           move == Top.valids[Top.k]
           inRow == move \in rows[r]
           inCol == inRow /\ move \in cols[c]
           inBox == inCol /\ move \in boxes[b]
       IN  /\ board' = [board EXCEPT ![<<r, c>>] = "."]
           /\ rows' = IF inRow THEN [rows EXCEPT ![r] = @ \ {move}] ELSE rows
           /\ cols' = IF inCol THEN [cols EXCEPT ![c] = @ \ {move}] ELSE cols
           /\ boxes' = IF inBox THEN [boxes EXCEPT ![b] = @ \ {move}] ELSE boxes
           /\ stack' = IF inBox
                       THEN SetTop([Top EXCEPT !.pc = "loop", !.k = Top.k + 1])
                       ELSE stack
           /\ phase' = IF inBox THEN phase ELSE "crashed"
    /\ retval' = "none"
    /\ retEntry' = NoEntry
    /\ UNCHANGED empties
    /\ UNCHANGED <<pegVars, bfsVars, visVars, hashiVars, playerVars>>

\* the loop is exhausted: `return False`
SdkExhausted ==
    /\ phase = "sdk" /\ stack # <<>> /\ Top.pc = "loop"
    /\ Top.k > Len(Top.valids)
    /\ SdkReturn(Top, "False")
    /\ UNCHANGED <<board, sdkVars>>
    /\ UNCHANGED <<pegVars, bfsVars, visVars, hashiVars, playerVars>>

\* solveSudoku(board) is called: empties, rows, cols and boxes are new
SdkInit ==
    /\ initBoard \in SudokuBoards
    /\ board = initBoard
    /\ empties = <<>>
    /\ rows = [i \in 0 .. SudokuN - 1 |-> {}]
    /\ cols = [j \in 0 .. SudokuN - 1 |-> {}]
    /\ boxes = [n \in 0 .. SudokuN - 1 |-> {}]
    /\ stack = <<>>
    /\ retval = "none"
    /\ retEntry = NoEntry
    /\ phase = "sdkStart"
    /\ moves = <<>>
    /\ visited = {}
    /\ result1 = "none"
    /\ moves1 = <<>>
    /\ pending = 0
    /\ pruned = FALSE
    /\ max_depth = 0
    /\ queue = <<>>
    /\ bfs = NoBfs
    /\ char_map = <<>>
    /\ puzzle = <<>>
    /\ heap = <<>>
    /\ player_position = <<>> /\ player_empties = <<>> /\ jumplist = <<>> /\ valids = 0

SdkNext ==
    \/ SdkFindEmpties
    \/ SdkEnter
    \/ SdkPlace
    \/ SdkReturnTrue
    \/ SdkUndo
    \/ SdkExhausted

SpecSudoku == SdkInit /\ [][SdkNext]_vars

---------------------------------------------------------------------------
(* hashiwokakero/hashi.py: solve_map.  An island is named by its index in   *)
(* p.nodes (Python index i is TLA+ index i + 1, None is 0); a Bridge object *)
(* is named by its position in `heap`, so that p.edges, a list of          *)
(* references, may hold the same bridge more than once.  p.nislands is      *)
(* Len(p.nodes) and p.nbridges is Len(p.edges).                             *)

None == 0

UP == 0

RIGHT == 1

DOWN == 2

LEFT == 3

DIRECTIONS == 4

MAX_BRIDGES == 200

\* `if bridge.wires == 3`: a bridge carries at most three wires
FullWires == 3

\* the characters that is_island accepts, in the order of their values
IslandChars == <<"1", "2", "3", "4", "5", "6", "7", "8", "9", "a", "b", "c">>

is_island(ch) == \E n \in 1 .. Len(IslandChars) : IslandChars[n] = ch

island2num(ch) == CHOOSE n \in 1 .. Len(IslandChars) : IslandChars[n] = ch

\* the maps of the model: a square grid of GridSide rows, with islands on
\* some of five sites: the middle of each side and the top right corner
GridCells == (0 .. GridSide - 1) \X (0 .. GridSide - 1)

Mid == GridSide \div 2

Sites == {<<0, Mid>>, <<Mid, GridSide - 1>>, <<GridSide - 1, Mid>>,
          <<Mid, 0>>, <<0, GridSide - 1>>}

MapOf(f) == [q \in GridCells |-> IF q \in DOMAIN f THEN IslandChars[f[q]] ELSE " "]

HashiMaps ==
    UNION { { MapOf(f) : f \in [S -> 1 .. MaxDegree] } :
            S \in {T \in SUBSET Sites : Cardinality(T) <= MaxIslands} }

SetMin(S) == CHOOSE x \in S : \A y \in S : x <= y

SetMax(S) == CHOOSE x \in S : \A y \in S : x >= y

Abs(n) == IF n < 0 THEN 0 - n ELSE n

\* Island.__init__
Island(x, y, max_bridges) ==
    [x |-> x, y |-> y, max_bridges |-> max_bridges, curr_bridges |-> 0,
     neighbours |-> <<None, None, None, None>>]

\* Bridge.__init__
Bridge(island1, island2, direction) ==
    [island1 |-> island1, island2 |-> island2, direction |-> direction,
     symbol |-> " ", wires |-> 0, skip |-> FALSE]

\* the cell j steps away from column x of row y in direction dir, <<row, col>>
Along(dir, x, y, j) ==
    CASE dir = UP -> <<y - j, x>>
      [] dir = DOWN -> <<y + j, x>>
      [] dir = LEFT -> <<y, x - j>>
      [] dir = RIGHT -> <<y, x + j>>

\* parse_map, first loop: the island cells of the map in row-major order
RECURSIVE IslandsFrom(_, _, _, _)
IslandsFrom(map, nrows, ncols, k) ==
    IF k = nrows * ncols THEN <<>>
    ELSE LET i == k \div ncols
             j == k % ncols
         IN (IF is_island(map[<<i, j>>])
             THEN <<Island(j, i, island2num(map[<<i, j>>]))>> ELSE <<>>)
            \o IslandsFrom(map, nrows, ncols, k + 1)

\* getIsland, with Python's -1 written None
getIsland(nodes, x, y) ==
    LET found == {i \in 1 .. Len(nodes) : nodes[i].x = x /\ nodes[i].y = y}
    IN IF found = {} THEN None ELSE SetMin(found)

\* parse_map, second loop: the nearest island in direction dir, at most
\* `reach` cells away
Nearest(map, nodes, isl, dir, reach) ==
    LET ds == {d \in 1 .. reach :
                  is_island(map[Along(dir, isl.x, isl.y, d)])}
    IN IF ds = {} THEN None
       ELSE LET q == Along(dir, isl.x, isl.y, SetMin(ds))
            IN getIsland(nodes, q[2], q[1])

\* parse_map(map, p), on the puzzle that scan_map has sized
parse_map(map, pz) ==
    LET nodes == IslandsFrom(map, pz.nrows, pz.ncols, 0)
        linked(isl) ==
            [isl EXCEPT !.neighbours =
                <<Nearest(map, nodes, isl, UP, isl.y),
                  Nearest(map, nodes, isl, RIGHT, pz.ncols - 1 - isl.x),
                  Nearest(map, nodes, isl, DOWN, pz.nrows - 1 - isl.y),
                  Nearest(map, nodes, isl, LEFT, isl.x)>>]
    IN [pz EXCEPT !.nodes = [i \in 1 .. Len(nodes) |-> linked(nodes[i])],
                  !.edges = <<>>]

\* check_solved with the second island as the first one tested
check_solved_fromSecond(pz) ==
    IF \E i \in 2 .. Len(pz.nodes) :
           pz.nodes[i].curr_bridges # pz.nodes[i].max_bridges
    THEN "FALSE" ELSE "TRUE"

check_solved(pz) ==
    IF \E i \in 1 .. Len(pz.nodes) :
           pz.nodes[i].curr_bridges # pz.nodes[i].max_bridges
    THEN "FALSE" ELSE "TRUE"

\* the test of can_build_bridge, remove_bridge and constructBridge: bridge b
\* joins islands a and c, in either order
Joins(b, a, c) ==
    \/ b.island1 = a /\ b.island2 = c
    \/ b.island1 = c /\ b.island2 = a

\* the positions of p.edges whose bridge joins a and c
EdgesOf(pz, h, a, c) == {i \in 1 .. Len(pz.edges) : Joins(h[pz.edges[i]], a, c)}

\* abs(island1.x - island2.x + island1.y - island2.y)
Dist(pz, a, c) ==
    Abs(pz.nodes[a].x - pz.nodes[c].x + pz.nodes[a].y - pz.nodes[c].y)

\* a Python list index: a negative index counts from the end, and an index
\* outside the list raises IndexError, written -1
PyIndex(i, n) ==
    IF i >= 0 /\ i < n THEN i
    ELSE IF i < 0 /\ i >= 0 - n THEN i + n
    ELSE -1

\* can_build_bridge, lines 204-226: soln[row][col] for the cell q
SolnAt(pz, h, q) ==
    (IF \E i \in 1 .. Len(pz.nodes) : <<pz.nodes[i].y, pz.nodes[i].x>> = q
     THEN 1 ELSE 0)
    + Cardinality({i \in 1 .. Len(pz.edges) :
          LET b == h[pz.edges[i]]
          IN /\ ~b.skip
             /\ \E j \in 1 .. Dist(pz, b.island1, b.island2) - 1 :
                    Along(b.direction, pz.nodes[b.island1].x,
                          pz.nodes[b.island1].y, j) = q})

\* can_build_bridge(p, island, dir): "TRUE", "FALSE", or "IndexError" when
\* line 230, 234, 238 or 242 indexes soln outside the grid.  The names
\* island1 and island2 are rebound by the loop of lines 208-226, so that the
\* last test runs from the first island of the last bridge of p.edges that
\* is not skipped
can_build_bridge(pz, h, island, dir) ==
    LET island2 == pz.nodes[island].neighbours[dir + 1]
        same == EdgesOf(pz, h, island, island2)
        b == h[pz.edges[SetMin(same)]]
        live == {i \in 1 .. Len(pz.edges) : ~h[pz.edges[i]].skip}
        last1 == IF live = {} THEN island ELSE h[pz.edges[SetMax(live)]].island1
        last2 == IF live = {} THEN island2 ELSE h[pz.edges[SetMax(live)]].island2
        cell(j) == Along(dir, pz.nodes[last1].x, pz.nodes[last1].y, j)
        row(j) == PyIndex(cell(j)[1], pz.nrows)
        col(j) == PyIndex(cell(j)[2], pz.ncols)
        raises(j) == row(j) = -1 \/ col(j) = -1
        stops == {j \in 1 .. Dist(pz, last1, last2) - 1 :
                     raises(j) \/ SolnAt(pz, h, <<row(j), col(j)>>) > 0}
    IN IF island2 = None THEN "FALSE"
       ELSE IF same # {} /\ b.wires = FullWires THEN "FALSE"
       ELSE IF /\ same # {}
               /\ pz.nodes[b.island2].curr_bridges # pz.nodes[b.island2].max_bridges
               /\ pz.nodes[b.island1].curr_bridges # pz.nodes[b.island1].max_bridges
            THEN "TRUE"
       ELSE IF stops = {} THEN "TRUE"
       ELSE IF raises(SetMin(stops)) THEN "IndexError"
       ELSE "FALSE"

\* the symbol of a bridge of direction dir with w wires
SymbolOf(dir, w) ==
    LET flat == dir = LEFT \/ dir = RIGHT
    IN CASE w = 1 -> IF flat THEN "-" ELSE "|"
         [] w = 2 -> IF flat THEN "=" ELSE "\""
         [] w = 3 -> IF flat THEN "E" ELSE "#"
         [] OTHER -> " "

\* constructBridge: the bridge of p.edges that joins the two islands, or a
\* new Bridge object; the result is the heap and the name of the bridge
constructBridge(pz, h, island1, island2, dir) ==
    LET same == EdgesOf(pz, h, island1, island2)
    IN IF same # {}
       THEN [heap |-> h, bridge |-> pz.edges[SetMin(same)]]
       ELSE [heap |-> Append(h, Bridge(island1, island2, dir)),
             bridge |-> Len(h) + 1]

\* curr_bridges of islands a and c changed by d
Bump(nodes, a, c, d) ==
    [i \in 1 .. Len(nodes) |->
        IF i = a \/ i = c
        THEN [nodes[i] EXCEPT !.curr_bridges = nodes[i].curr_bridges + d]
        ELSE nodes[i]]

\* add_bridge with `island2.curr_bridges += 1` forgotten
add_bridge_oneEnd(pz, h, island, dir) ==
    LET island2 == pz.nodes[island].neighbours[dir + 1]
        made == constructBridge(pz, h, island, island2, dir)
        id == made.bridge
        w == made.heap[id].wires + 1
        full == Len(pz.edges) = MAX_BRIDGES
    IN IF made.heap[id].wires = FullWires
       THEN [p |-> pz, heap |-> made.heap, error |-> FALSE]
       ELSE [p |-> [pz EXCEPT
                      !.nodes = Bump(pz.nodes, island, island, 1),
                      !.edges = IF w = 1 /\ ~full THEN Append(pz.edges, id)
                                ELSE pz.edges],
             heap |-> [made.heap EXCEPT
                         ![id].wires = w,
                         ![id].symbol = SymbolOf(made.heap[id].direction, w)],
             error |-> w = 1 /\ full]

\* add_bridge(p, island, dir), called when island has a neighbour in dir;
\* error is the IndexError of `p.edges[p.nbridges] = bridge` on a full list
add_bridge(pz, h, island, dir) ==
    LET island2 == pz.nodes[island].neighbours[dir + 1]
        made == constructBridge(pz, h, island, island2, dir)
        id == made.bridge
        w == made.heap[id].wires + 1
        full == Len(pz.edges) = MAX_BRIDGES
    IN IF made.heap[id].wires = FullWires
       THEN [p |-> pz, heap |-> made.heap, error |-> FALSE]
       ELSE [p |-> [pz EXCEPT
                      !.nodes = Bump(pz.nodes, island, island2, 1),
                      !.edges = IF w = 1 /\ ~full THEN Append(pz.edges, id)
                                ELSE pz.edges],
             heap |-> [made.heap EXCEPT
                         ![id].wires = w,
                         ![id].symbol = SymbolOf(made.heap[id].direction, w)],
             error |-> w = 1 /\ full]

\* remove_bridge with `island2.curr_bridges -= 1` forgotten
remove_bridge_oneEnd(pz, h, island, dir) ==
    LET island2 == pz.nodes[island].neighbours[dir + 1]
        same == EdgesOf(pz, h, island, island2)
        id == pz.edges[IF same # {} THEN SetMin(same) ELSE Len(pz.edges)]
        w == h[id].wires - 1
    IN IF pz.edges = <<>>
       THEN [p |-> pz, heap |-> h, error |-> TRUE]
       ELSE IF h[id].wires = 0
       THEN [p |-> pz, heap |-> [h EXCEPT ![id].skip = TRUE], error |-> FALSE]
       ELSE [p |-> [pz EXCEPT !.nodes = Bump(pz.nodes, island, island, -1)],
             heap |-> [h EXCEPT ![id].wires = w,
                                ![id].symbol = SymbolOf(h[id].direction, w)],
             error |-> FALSE]

\* remove_bridge with the symbol left as it was
remove_bridge_keepSymbol(pz, h, island, dir) ==
    LET island2 == pz.nodes[island].neighbours[dir + 1]
        same == EdgesOf(pz, h, island, island2)
        id == pz.edges[IF same # {} THEN SetMin(same) ELSE Len(pz.edges)]
        w == h[id].wires - 1
    IN IF pz.edges = <<>>
       THEN [p |-> pz, heap |-> h, error |-> TRUE]
       ELSE IF h[id].wires = 0
       THEN [p |-> pz, heap |-> [h EXCEPT ![id].skip = TRUE], error |-> FALSE]
       ELSE [p |-> [pz EXCEPT !.nodes = Bump(pz.nodes, island, island2, -1)],
             heap |-> [h EXCEPT ![id].wires = w],
             error |-> FALSE]

\* remove_bridge(p, island, dir): the loop leaves `bridge` on the first
\* bridge that joins the two islands, or on the last bridge of p.edges;
\* error is the AttributeError of `bridge.wires` when p.edges is empty
remove_bridge(pz, h, island, dir) ==
    LET island2 == pz.nodes[island].neighbours[dir + 1]
        same == EdgesOf(pz, h, island, island2)
        id == pz.edges[IF same # {} THEN SetMin(same) ELSE Len(pz.edges)]
        w == h[id].wires - 1
    IN IF pz.edges = <<>>
       THEN [p |-> pz, heap |-> h, error |-> TRUE]
       ELSE IF h[id].wires = 0
       THEN [p |-> pz, heap |-> [h EXCEPT ![id].skip = TRUE], error |-> FALSE]
       ELSE [p |-> [pz EXCEPT !.nodes = Bump(pz.nodes, island, island2, -1)],
             heap |-> [h EXCEPT ![id].wires = w,
                                ![id].symbol = SymbolOf(h[id].direction, w)],
             error |-> FALSE]

\* findBridge(p, idx, island), as Python indexes: idx when the island is
\* saturated, else the index of the island
findBridge(pz, idx, island) ==
    IF pz.nodes[island].max_bridges = pz.nodes[island].curr_bridges
    THEN idx ELSE island - 1

\* a frame of solve_map(p, idx): its position, its loop variable dir, and,
\* as history, the puzzle and the bridges on entry
HashiFrame(idx, pz, h) ==
    [pc |-> "enter", idx |-> idx, dir |-> 0, entry |-> [p |-> pz, heap |-> h]]

\* the call that owns frame f returns v; the outermost call returns to main
HashiReturn(f, v) ==
    /\ stack' = Pop
    /\ retval' = v
    /\ retEntry' = f.entry
    /\ phase' = IF Len(stack) = 1 THEN "hashiDone" ELSE phase

\* the variables that hashi.py does not have
otherVars == <<board, pegVars, bfsVars, visVars, sdkVars, playerVars>>

\* solve_map is entered: `if idx == p.nislands: return check_solved(p)`,
\* else the loop over the directions starts
HashiEnter ==
    /\ phase = "hashi" /\ stack # <<>> /\ Top.pc = "enter"
    /\ IF Top.idx = Len(puzzle.nodes)
       THEN HashiReturn(Top, check_solved(puzzle))
       ELSE /\ stack' = SetTop([Top EXCEPT !.pc = "loop", !.dir = 0])
            /\ UNCHANGED <<retval, retEntry, phase>>
    /\ UNCHANGED <<hashiVars, otherVars>>

\* `if can_build_bridge(p, island, dir)` is FALSE: the next direction
HashiSkip ==
    /\ phase = "hashi" /\ stack # <<>> /\ Top.pc = "loop"
    /\ Top.dir < DIRECTIONS
    /\ can_build_bridge(puzzle, heap, Top.idx + 1, Top.dir) = "FALSE"
    /\ stack' = SetTop([Top EXCEPT !.dir = Top.dir + 1])
    /\ UNCHANGED <<retval, retEntry, phase, hashiVars, otherVars>>

\* can_build_bridge raises IndexError, which nothing catches: the program
\* ends with a traceback
HashiIndexError ==
    /\ phase = "hashi" /\ stack # <<>> /\ Top.pc = "loop"
    /\ Top.dir < DIRECTIONS
    /\ can_build_bridge(puzzle, heap, Top.idx + 1, Top.dir) = "IndexError"
    /\ phase' = "crashed"
    /\ UNCHANGED <<stack, retval, retEntry, hashiVars, otherVars>>

\* can_build_bridge is TRUE: add_bridge, then `return TRUE` when
\* check_solved(p), else the call solve_map(p, findBridge(...))
HashiBuild ==
    /\ phase = "hashi" /\ stack # <<>> /\ Top.pc = "loop"
    /\ Top.dir < DIRECTIONS
    /\ can_build_bridge(puzzle, heap, Top.idx + 1, Top.dir) = "TRUE"
    /\ \E a \in {add_bridge(puzzle, heap, Top.idx + 1, Top.dir)} :
           /\ puzzle' = a.p
           /\ heap' = a.heap
           /\ IF a.error
              THEN /\ phase' = "crashed"
                   /\ UNCHANGED <<stack, retval, retEntry>>
              ELSE IF check_solved(a.p) = "TRUE"
              THEN HashiReturn(Top, "TRUE")
              ELSE /\ stack' = Append(SetTop([Top EXCEPT !.pc = "wait"]),
                                  HashiFrame(findBridge(a.p, Top.idx,
                                      puzzle.nodes[Top.idx + 1].neighbours[Top.dir + 1]),
                                      a.p, a.heap))
                   /\ UNCHANGED <<retval, retEntry, phase>>
    /\ UNCHANGED <<char_map, otherVars>>

\* the recursive call returned TRUE: `return TRUE`
HashiReturnTrue ==
    /\ phase = "hashi" /\ stack # <<>> /\ Top.pc = "wait"
    /\ retval = "TRUE"
    /\ HashiReturn(Top, "TRUE")
    /\ UNCHANGED <<hashiVars, otherVars>>

\* HashiRemove with the call of remove_bridge forgotten
HashiRemove_noRemove ==
    /\ phase = "hashi" /\ stack # <<>> /\ Top.pc = "wait"
    /\ retval = "FALSE"
    /\ stack' = SetTop([Top EXCEPT !.pc = "loop", !.dir = Top.dir + 1])
    /\ UNCHANGED <<phase, hashiVars, retval, retEntry, otherVars>>

\* the recursive call returned FALSE: remove_bridge and the next direction
HashiRemove ==
    /\ phase = "hashi" /\ stack # <<>> /\ Top.pc = "wait"
    /\ retval = "FALSE"
    /\ \E r \in {remove_bridge(puzzle, heap, Top.idx + 1, Top.dir)} :
           /\ puzzle' = r.p
           /\ heap' = r.heap
           /\ IF r.error
              THEN /\ phase' = "crashed"
                   /\ UNCHANGED stack
              ELSE /\ stack' = SetTop([Top EXCEPT !.pc = "loop",
                                                  !.dir = Top.dir + 1])
                   /\ UNCHANGED phase
    /\ UNCHANGED <<char_map, retval, retEntry, otherVars>>

\* the loop over the directions is over: `return FALSE`
HashiExhausted ==
    /\ phase = "hashi" /\ stack # <<>> /\ Top.pc = "loop"
    /\ Top.dir = DIRECTIONS
    /\ HashiReturn(Top, "FALSE")
    /\ UNCHANGED <<hashiVars, otherVars>>

\* the Puzzle after scan_map has read a map of GridSide rows of GridSide
\* characters
Scanned == [nodes |-> <<>>, edges |-> <<>>, nrows |-> GridSide, ncols |-> GridSide]

\* main, lines 133-135: scan_map and parse_map are done, solve_map(p, 0) is
\* called
HashiInit ==
    /\ char_map \in HashiMaps
    /\ puzzle = parse_map(char_map, Scanned)
    /\ heap = <<>>
    /\ stack = <<HashiFrame(0, puzzle, heap)>>
    /\ retval = "none"
    /\ retEntry = NoEntry
    /\ phase = "hashi"
    /\ board = <<>>
    /\ initBoard = <<>>
    /\ moves = <<>>
    /\ visited = {}
    /\ result1 = "none"
    /\ moves1 = <<>>
    /\ pending = 0
    /\ pruned = FALSE
    /\ max_depth = 0
    /\ queue = <<>>
    /\ bfs = NoBfs
    /\ empties = <<>>
    /\ rows = <<>>
    /\ cols = <<>>
    /\ boxes = <<>>
    /\ player_position = <<>> /\ player_empties = <<>> /\ jumplist = <<>> /\ valids = 0

HashiNext ==
    \/ HashiEnter
    \/ HashiSkip
    \/ HashiIndexError
    \/ HashiBuild
    \/ HashiReturnTrue
    \/ HashiRemove
    \/ HashiExhausted

SpecHashi == HashiInit /\ [][HashiNext]_vars

\* solve_map under a scheduler that always runs the next step of the program
SpecHashiFair == SpecHashi /\ WF_vars(HashiNext)

---------------------------------------------------------------------------
(* european/single-player.py: the interactive game.  Player.move and      *)
(* Player.jump work on the module-level board; game() reads one input per *)
(* iteration, then calls check_win and check_loss.                        *)

\* Player.__init__: self.position = [6, 4]
StartPosition == <<6, 4>>

\* Player.move with the test `board[...] != 0` of the branch w forgotten
player_move_noVoidTest(b, pos, m) ==
    CASE m = "w" -> IF pos[1] > 0
                    THEN <<pos[1] - 1, pos[2]>> ELSE pos
      [] m = "a" -> IF pos[2] > 0 /\ b[<<pos[1], pos[2] - 1>>] # 0
                    THEN <<pos[1], pos[2] - 1>> ELSE pos
      [] m = "s" -> IF pos[1] < N - 1 /\ b[<<pos[1] + 1, pos[2]>>] # 0
                    THEN <<pos[1] + 1, pos[2]>> ELSE pos
      [] m = "d" -> IF pos[2] < N - 1 /\ b[<<pos[1], pos[2] + 1>>] # 0
                    THEN <<pos[1], pos[2] + 1>> ELSE pos

\* Player.move for m in w, a, s, d: the cursor after the move; it stays
\* when the step leaves the grid or leads to a cell that holds 0
player_move(b, pos, m) ==
    CASE m = "w" -> IF pos[1] > 0 /\ b[<<pos[1] - 1, pos[2]>>] # 0
                    THEN <<pos[1] - 1, pos[2]>> ELSE pos
      [] m = "a" -> IF pos[2] > 0 /\ b[<<pos[1], pos[2] - 1>>] # 0
                    THEN <<pos[1], pos[2] - 1>> ELSE pos
      [] m = "s" -> IF pos[1] < N - 1 /\ b[<<pos[1] + 1, pos[2]>>] # 0
                    THEN <<pos[1] + 1, pos[2]>> ELSE pos
      [] m = "d" -> IF pos[2] < N - 1 /\ b[<<pos[1], pos[2] + 1>>] # 0
                    THEN <<pos[1], pos[2] + 1>> ELSE pos

\* the `if` of the branch j of Player.jump: the cell two steps away is in
\* the grid and holds a negative value, the cell in between a positive one
jump_test(b, pos, j) ==
    CASE j = "w" -> /\ pos[1] > 1
                    /\ b[<<pos[1] - 1, pos[2]>>] > 0
                    /\ b[<<pos[1] - 2, pos[2]>>] < 0
      [] j = "a" -> /\ pos[2] > 1
                    /\ b[<<pos[1], pos[2] - 2>>] < 0
                    /\ b[<<pos[1], pos[2] - 1>>] > 0
      [] j = "s" -> /\ pos[1] < N - 2
                    /\ b[<<pos[1] + 2, pos[2]>>] < 0
                    /\ b[<<pos[1] + 1, pos[2]>>] > 0
      [] j = "d" -> /\ pos[2] < N - 2
                    /\ b[<<pos[1], pos[2] + 2>>] < 0
                    /\ b[<<pos[1], pos[2] + 1>>] > 0

\* the cell next to pos and the cell two steps from pos in direction j
jump_over(pos, j) ==
    CASE j = "w" -> <<pos[1] - 1, pos[2]>>
      [] j = "a" -> <<pos[1], pos[2] - 1>>
      [] j = "s" -> <<pos[1] + 1, pos[2]>>
      [] j = "d" -> <<pos[1], pos[2] + 1>>

jump_land(pos, j) ==
    CASE j = "w" -> <<pos[1] - 2, pos[2]>>
      [] j = "a" -> <<pos[1], pos[2] - 2>>
      [] j = "s" -> <<pos[1] + 2, pos[2]>>
      [] j = "d" -> <<pos[1], pos[2] + 2>>

\* Player.jump for j in w, a, s, d: the board, the cursor and the two
\* lists after the call
player_jump(b, pos, es, jl, j) ==
    IF jump_test(b, pos, j)
    THEN [board |-> Jump(b, pos, jump_over(pos, j), jump_land(pos, j)),
          position |-> jump_land(pos, j),
          empties |-> es \o <<b[jump_over(pos, j)], b[pos]>>,
          jumplist |-> Append(jl, <<b[pos], j>>)]
    ELSE [board |-> b, position |-> pos, empties |-> es, jumplist |-> jl]

\* check_win calls game_over(1): no row ended with more than one peg
\* counted so far, and one peg was counted in all
check_win(b) ==
    \E rowPegs \in {[i \in 0 .. N - 1 |->
                        Cardinality({c \in 0 .. N - 1 : b[<<i, c>>] > 0})]} :
        LET RECURSIVE upTo(_)
            upTo(i) == IF i < 0 THEN 0 ELSE upTo(i - 1) + rowPegs[i]
        IN /\ \A i \in 0 .. N - 1 : upTo(i) <= 1
           /\ upTo(N - 1) = 1

\* check_loss: the number of pegs that have, in some direction, a peg next
\* to them and a negative cell behind it
check_loss(b) ==
    Cardinality({q \in Cells :
        /\ \/ q[1] > 1 /\ b[<<q[1] - 2, q[2]>>] < 0 /\ b[<<q[1] - 1, q[2]>>] > 0
           \/ q[2] > 1 /\ b[<<q[1], q[2] - 2>>] < 0 /\ b[<<q[1], q[2] - 1>>] > 0
           \/ q[1] < N - 2 /\ b[<<q[1] + 2, q[2]>>] < 0 /\ b[<<q[1] + 1, q[2]>>] > 0
           \/ q[2] < N - 2 /\ b[<<q[1], q[2] + 2>>] < 0 /\ b[<<q[1], q[2] + 1>>] > 0
        /\ b[q] > 0})

\* game(), lines 145-146, on the board b left by player.move: check_win
\* ends the program with one peg, else check_loss sets valids and ends the
\* program when it is 0
AfterInput(b) ==
    \E won \in {check_win(b)} :
        \E count \in {IF won THEN valids ELSE check_loss(b)} :
            /\ valids' = count
            /\ phase' = IF won THEN "won" ELSE IF count = 0 THEN "lost" ELSE "play"

\* the variables that single-player.py does not have
nonPlayerVars == <<moves, stack, retval, retEntry, visited, initBoard, result1,
                   moves1, pending, pruned, bfsVars, visVars, sdkVars, hashiVars>>

\* one iteration of game() with the input w, a, s or d: the cursor moves
PlayerMove ==
    /\ phase = "play"
    /\ AfterInput(board)
    /\ \E m \in {"w", "a", "s", "d"} :
           player_position' = player_move(board, player_position, m)
    /\ UNCHANGED <<board, player_empties, jumplist, nonPlayerVars>>

\* one iteration of game() with the input " " and the answer w, a, s or d
\* to "jump where? "
PlayerJump ==
    /\ phase = "play"
    /\ \E j \in {"w", "a", "s", "d"} :
           LET r == player_jump(board, player_position, player_empties, jumplist, j)
           IN /\ board' = r.board
              /\ player_position' = r.position
              /\ player_empties' = r.empties
              /\ jumplist' = r.jumplist
              /\ AfterInput(r.board)
    /\ UNCHANGED nonPlayerVars

\* the input q: `break`
PlayerQuit ==
    /\ phase = "play"
    /\ phase' = "quit"
    /\ UNCHANGED <<board, playerVars, nonPlayerVars>>

\* the boards the game is started on: the octagonal board with at most
\* MaxPlayerPegs pegs, drawn from rows 2 and 3 of the top-left quadrant;
\* every other playable cell is empty, the cell of the cursor included
PlayerBoards ==
    { [p \in Cells |-> IF EuropeanVoid(p) THEN VOID
                       ELSE IF p \in S THEN PegId(p) ELSE EMPTY] :
      S \in {T \in SUBSET {q \in Quadrant : q[1] >= 2 /\ ~EuropeanVoid(q)} :
                 Cardinality(T) <= MaxPlayerPegs} }

\* the module is loaded and game() has made the Player
PlayerInit ==
    /\ initBoard \in PlayerBoards
    /\ board = initBoard
    /\ player_position = StartPosition
    /\ player_empties = <<>>
    /\ jumplist = <<>>
    /\ valids = 0
    /\ phase = "play"
    /\ moves = <<>>
    /\ stack = <<>>
    /\ retval = "none"
    /\ retEntry = NoEntry
    /\ visited = {}
    /\ result1 = "none"
    /\ moves1 = <<>>
    /\ pending = 0
    /\ pruned = FALSE
    /\ max_depth = 0
    /\ queue = <<>>
    /\ bfs = NoBfs
    /\ empties = <<>> /\ rows = <<>> /\ cols = <<>> /\ boxes = <<>>
    /\ char_map = <<>>
    /\ puzzle = <<>>
    /\ heap = <<>>

PlayerNext ==
    \/ PlayerMove
    \/ PlayerJump
    \/ PlayerQuit

SpecPlayer == PlayerInit /\ [][PlayerNext]_vars

---------------------------------------------------------------------------
(* Legal jumps, stated from the rules of the game *)

Dirs == {"w", "a", "s", "d"}

Delta(d) ==
    CASE d = "w" -> <<-1, 0>>
      [] d = "a" -> <<0, -1>>
      [] d = "s" -> <<1, 0>>
      [] d = "d" -> <<0, 1>>

Step(p, d, n) == <<p[1] + n * Delta(d)[1], p[2] + n * Delta(d)[2]>>

\* the peg on p may jump in direction d: the adjacent cell holds a peg and
\* the cell two steps away is an empty playable cell inside the board
LegalJump(b, p, d) ==
    /\ p \in Cells /\ b[p] > 0
    /\ Step(p, d, 2) \in Cells
    /\ b[Step(p, d, 1)] > 0
    /\ b[Step(p, d, 2)] = EMPTY

AfterJump(b, p, d) ==
    [b EXCEPT ![p] = EMPTY, ![Step(p, d, 1)] = EMPTY, ![Step(p, d, 2)] = b[p]]

RECURSIVE GoalReachable(_, _)
\* some sequence of legal jumps leads from b to a board accepted by Goal
GoalReachable(Goal(_), b) ==
    \/ Goal(b)
    \/ \E p \in Cells, d \in Dirs :
          LegalJump(b, p, d) /\ GoalReachable(Goal, AfterJump(b, p, d))

RECURSIVE SolutionLengths(_, _)
\* the lengths of the sequences of legal jumps from b to a board accepted
\* by Goal
SolutionLengths(Goal(_), b) ==
    (IF Goal(b) THEN {0} ELSE {})
    \cup UNION { {n + 1 : n \in SolutionLengths(Goal, AfterJump(b, p, d))} :
                 <<p, d>> \in {pd \in Cells \X Dirs : LegalJump(b, pd[1], pd[2])} }

\* the list ms contains a move of the peg on p in direction d
Lists(ms, p, d) ==
    \E k \in 1 .. Len(ms) : ms[k][1] = p[1] /\ ms[k][2] = p[2] /\ ms[k][3] = d

RECURSIVE Replay(_, _)
\* the moves ms applied in order with make_move, starting from b: whether
\* each was legal when applied, and the board reached
Replay(b, ms) ==
    IF ms = <<>> THEN [ok |-> TRUE, board |-> b]
    ELSE IF ~LegalJump(b, <<Head(ms)[1], Head(ms)[2]>>, Head(ms)[3])
         THEN [ok |-> FALSE, board |-> b]
         ELSE Replay(make_move(b, <<>>, Head(ms)).board, Tail(ms))

\* the cell a recorded move started from: two steps back from the landing
\* cell it holds
Origin(m) ==
    LET p == Step(<<m[1], m[2]>>, m[3], -2) IN <<p[1], p[2], m[3], m[4]>>

Succeeded ==
    \/ phase = "solveDone" /\ result1 = "True"
    \/ phase = "dfsDone" /\ retval = "True"

WaitingFrames == {j \in 1 .. Len(stack) : stack[j].pc = "wait"}

---------------------------------------------------------------------------
(* Claims *)

\* C1 -- undo exactness: for the current board and every move that
\* get_valid_moves returns on it (dfs.py, and likewise euro-vis.py with its
\* own three methods), make_move(move) followed by undo_move() leaves every
\* cell of the board (peg identifiers included) and the length of the moves
\* stack as they were.
C1_UndoExact ==
    LET vs == get_valid_moves(board)
        ws == vis_get_valid_moves(board)
    IN  /\ \A k \in 1 .. Len(vs) :
              LET r == make_move(board, moves, vs[k])
                  u == undo_move(r.board, r.moves)
              IN  u.board = board /\ Len(u.moves) = Len(moves)
        /\ \A k \in 1 .. Len(ws) :
              LET r == vis_make_move(board, moves, ws[k])
                  u == vis_undo_move(r.board, r.moves)
              IN  u.board = board /\ Len(u.moves) = Len(moves)

\* a search has applied a move and undone it, and is back on the board the
\* call was entered with, where further moves are valid
C1_Witness ==
    /\ phase = "solve" /\ stack # <<>> /\ Top.pc = "loop" /\ Top.idx > 1
    /\ board = Top.entryBoard
    /\ Len(get_valid_moves(board)) >= 2

\* C2 -- no mutation on failure: when a call of solve or of dfs, at any
\* depth, has returned False, the board and the moves stack are what they
\* were when that call was entered.
C2_NoMutationOnFailure ==
    retval = "False" => board = retEntry.board /\ moves = retEntry.moves

\* a nested call of dfs that tried at least two moves has returned False
C2_Witness ==
    /\ phase = "dfs" /\ retval = "False" /\ stack # <<>>
    /\ retEntry.tried >= 2 /\ retEntry.moves # <<>>

\* C3 -- dedup safety: from every initial board, dfs with the visited set
\* succeeds whenever solve succeeds.
C3_DedupSafe ==
    phase = "dfsDone" => (result1 = "True" => retval = "True")

\* both searches succeeded although dfs cut a branch at a visited board
C3_Witness ==
    phase = "dfsDone" /\ result1 = "True" /\ retval = "True" /\ pruned

\* C4 -- depth-first completeness: solve returns True if a board accepted
\* by is_solved is reachable from the initial board by legal jumps, and
\* False only if none is.
C4_SolveComplete ==
    phase = "solveDone" =>
        (result1 = "True" <=> GoalReachable(is_solved, initBoard))

\* C5 -- move enumeration is complete: get_valid_moves lists a move for
\* every peg and every direction in which that peg has a legal jump.
C5_EnumerationComplete ==
    \A p \in Cells, d \in Dirs :
        LegalJump(board, p, d) => Lists(get_valid_moves(board), p, d)

\* C6 -- breadth-first minimality: when a goal position is reachable from
\* the initial board, bfs returns a move sequence, and no sequence of legal
\* jumps from the initial board to a goal position is shorter than it.
C6_BfsMinimal ==
    (phase = "bfs" /\ bfs.pc = "done") =>
        \A n \in SolutionLengths(sep_is_solved, initBoard) :
            ~bfs.result.none /\ Len(bfs.result.moves) <= n

\* C7 -- breadth-first completeness: bfs returns None only if no goal
\* position is reachable from the initial board by legal jumps; what it
\* returns otherwise is a move sequence (each move recorded with its
\* landing cell) that leads from the initial board to a goal position.
C7_BfsComplete ==
    (phase = "bfs" /\ bfs.pc = "done") =>
        IF bfs.result.none
        THEN ~GoalReachable(sep_is_solved, initBoard)
        ELSE LET ms == bfs.result.moves
                 r == Replay(initBoard, [k \in 1 .. Len(ms) |-> Origin(ms[k])])
             IN  r.ok /\ sep_is_solved(r.board)

C9_Deterministic ==
    phase = "vis2Done" =>
        retval = result1 /\ (retval = "True" => moves = moves1)

\* C10 -- strict LIFO move/undo discipline: undo_move is called on a
\* non-empty stack only; every call below the innermost one waits for the
\* move it applied, the k-th waiting call for the k-th move of the stack,
\* so the move an undo pops is the one its own call applied last; and the
\* depth of the stack is the number of applied moves not yet undone.
C10_StrictLifo ==
    /\ phase # "crashed"
    /\ Len(moves) = pending
    /\ phase \in {"solve", "dfs"} =>
         /\ \A j \in 1 .. Len(stack) - 1 : stack[j].pc = "wait"
         /\ \A j \in WaitingFrames :
               j <= Len(moves) /\ moves[j] = stack[j].valids[stack[j].idx]
         /\ retval # "True" => Len(moves) = Cardinality(WaitingFrames)
         /\ (stack # <<>> /\ Top.pc = "wait" /\ retval = "False") =>
               moves # <<>> /\ moves[Len(moves)] = Top.valids[Top.idx]

\* a call two levels down is about to undo the move it applied
C10_Witness ==
    /\ phase = "solve" /\ Len(stack) >= 2 /\ Top.pc = "wait"
    /\ retval = "False" /\ Top.idx >= 2

\* C12 -- invalid moves fail fast: when bfs applies, with make_move, a move
\* that is not a legal jump on the board make_move works on (origin not a
\* peg, jumped cell not a peg, or landing cell not an empty playable cell),
\* the move is rejected and that board is left as it was.
C12_InvalidMoveRejected ==
    [][ ( /\ phase = "bfs" /\ bfs.pc = "for" /\ bfs'.k = bfs.k + 1
          /\ ~LegalJump(board, <<bfs.valids[bfs.k][1], bfs.valids[bfs.k][2]>>,
                        bfs.valids[bfs.k][3]) )
        => board' = board ]_vars

\* a move of a list of valid moves is legal on board b and records the
\* identifier of the peg it jumps
SoundMove(b, m) ==
    /\ LegalJump(b, <<m[1], m[2]>>, m[3])
    /\ m[4] = b[Step(<<m[1], m[2]>>, m[3], 1)]
    /\ b[Step(<<m[1], m[2]>>, m[3], 2)] # VOID

\* C13 -- move enumeration is sound: every move [row, col, direction,
\* jumped] that get_valid_moves returns on the current board (dfs.py, and
\* likewise euro-vis.py) has a peg on its origin cell, the peg whose
\* identifier is `jumped` on the adjacent cell in its direction, and an
\* empty playable cell inside the board, never a void cell, two steps away.
C13_EnumerationSound ==
    LET vs == get_valid_moves(board)
        ws == vis_get_valid_moves(board)
    IN  /\ \A k \in 1 .. Len(vs) : SoundMove(board, vs[k])
        /\ \A k \in 1 .. Len(ws) : SoundMove(board, ws[k])

\* the running search stands on a board where a peg has a peg next to it
\* and a void cell behind that one, and where moves are enumerated
C13_Witness ==
    /\ phase = "solve" /\ moves # <<>>
    /\ get_valid_moves(board) # <<>>
    /\ \E p \in Cells, d \in Dirs :
          /\ board[p] > 0
          /\ Step(p, d, 2) \in Cells
          /\ board[Step(p, d, 1)] > 0
          /\ board[Step(p, d, 2)] = VOID

\* the number of pegs on board b
PegCount(b) == Cardinality({p \in Cells : b[p] > 0})

\* C14 -- goal predicate: is_solved of dfs.py and bfs-memory-british.py is
\* truthy exactly when one peg remains and it stands on the centre cell
\* (3,3); is_solved of euro-vis.py and of search-sep.py exactly when one peg
\* remains.  Zero pegs, two or more pegs and (british) a single peg off the
\* centre are reported as not solved.
C14_GoalPredicate ==
    /\ is_solved(board) <=>
          (PegCount(board) = 1 /\ board[<<TargetRow, TargetCol>>] > 0)
    /\ vis_is_solved(board) <=> (PegCount(board) = 1)
    /\ sep_is_solved(board) <=> (PegCount(board) = 1)

\* a search has jumped its way to a single peg that is not on the centre
C14_Witness ==
    /\ phase = "solve" /\ moves # <<>>
    /\ PegCount(board) = 1 /\ board[<<TargetRow, TargetCol>>] <= 0
    /\ ~is_solved(board)

\* no digit occurs twice in a row, a column or a box of board b
NoRepeat(b) ==
    \A q \in SudokuCells : b[q] # "." => \A y \in Peers(q) : b[y] # b[q]

Filled(b) == \A q \in SudokuCells : b[q] \in DigitSet

RECURSIVE Completions(_)
\* the valid completions of board b: the filled boards without a repeated
\* digit that agree with b on every cell b has filled
Completions(b) ==
    IF Filled(b) THEN (IF NoRepeat(b) THEN {b} ELSE {})
    ELSE LET q == CHOOSE x \in SudokuCells : b[x] = "."
         IN  UNION { Completions([b EXCEPT ![q] = d]) :
                     d \in {e \in DigitSet : \A y \in Peers(q) : b[y] # e} }

\* the number a digit character stands for
DigitValue(ch) == CHOOSE n \in 1 .. SudokuN : DigitsInOrder[n] = ch

\* board a comes before board b: at the first cell, in row-major order,
\* where they differ, a holds the smaller digit
Before(a, b) ==
    \E k \in 1 .. SudokuN * SudokuN :
        /\ DigitValue(a[SudokuRowMajor[k]]) < DigitValue(b[SudokuRowMajor[k]])
        /\ \A j \in 1 .. k - 1 : a[SudokuRowMajor[j]] = b[SudokuRowMajor[j]]

\* C15 -- sudoku result: when the initial board has a valid completion,
\* dfs_rec(0) returns True and the board is the completion that comes first
\* when the cells are compared in row-major order with digits ascending;
\* when it has none, dfs_rec(0) returns False.
C15_FirstCompletion ==
    phase = "sdkDone" =>
        LET all == Completions(initBoard)
        IN  IF all = {} THEN retval = "False"
            ELSE /\ retval = "True"
                 /\ board \in all
                 /\ \A other \in all \ {board} : Before(board, other)

\* the search succeeded on a board that has several completions
C15_Witness ==
    /\ phase = "sdkDone" /\ retval = "True"
    /\ Cardinality(Completions(initBoard)) >= 2

\* C16 -- the success state is a valid filled grid: when dfs_rec(0) has
\* returned True, every cell holds a digit 1-9, no digit occurs twice in a
\* row, a column or a box, and every cell that was filled initially holds
\* its initial digit.
C16_SuccessIsValidGrid ==
    (phase = "sdkDone" /\ retval = "True") =>
        /\ Filled(board)
        /\ NoRepeat(board)
        /\ \A q \in SudokuCells : initBoard[q] # "." => board[q] = initBoard[q]

\* the search succeeded on a board with at least three empty cells
C16_Witness ==
    /\ phase = "sdkDone" /\ retval = "True"
    /\ Len(empties) >= 3
    /\ NoRepeat(initBoard)

\* the single empty cell of board b, when its row, its column and its box
\* hold the same eight digits
SingleGap(b) ==
    {q \in SudokuCells :
        /\ b[q] = "."
        /\ \A x \in SudokuCells \ {q} : b[x] # "."
        /\ LET inRow == {b[x] : x \in {y \in Peers(q) : y[1] = q[1]}}
               inCol == {b[x] : x \in {y \in Peers(q) : y[2] = q[2]}}
               inBox == {b[x] : x \in {y \in Peers(q) :
                                          BoxOf(y[1], y[2]) = BoxOf(q[1], q[2])}}
           IN  inRow = inCol /\ inCol = inBox /\ Cardinality(inRow) = SudokuN - 1}

\* C17 -- single gap: on a board with exactly one empty cell whose row,
\* column and box hold the same eight digits, validMove returns exactly one
\* candidate for that cell, the missing digit, and once dfs_rec has placed
\* it the search succeeds with every cell filled.
C17_SingleGap ==
    \A q \in SingleGap(initBoard) :
        LET missing == CHOOSE d \in DigitSet : \A y \in Peers(q) : initBoard[y] # d
        IN  /\ (phase = "sdk" /\ board = initBoard) =>
                  validMove(board, q) = <<missing>>
            /\ phase = "sdkDone" =>
                  /\ retval = "True"
                  /\ Filled(board)
                  /\ board = [initBoard EXCEPT ![q] = missing]

\* the search has ended on a board that had a single gap
C17_Witness ==
    /\ phase = "sdkDone" /\ SingleGap(initBoard) # {}
    /\ retval = "True"

\* solve_map has been called on the parsed puzzle
HashiRunning == phase \in {"hashi", "hashiDone", "crashed"} /\ puzzle # <<>>

\* every island has as many bridges as it asks for
AllSaturated(pz) ==
    \A i \in 1 .. Len(pz.nodes) :
        pz.nodes[i].curr_bridges = pz.nodes[i].max_bridges

\* two islands that ask for one bridge each and are each other's neighbour
TwoIslands(pz) ==
    /\ Len(pz.nodes) = 2
    /\ pz.nodes[1].max_bridges = 1
    /\ pz.nodes[2].max_bridges = 1
    /\ \E d \in 0 .. DIRECTIONS - 1 : pz.nodes[1].neighbours[d + 1] = 2

\* C18: on a puzzle of exactly two islands that each ask for one bridge and
\* are each other's neighbour, can_build_bridge from the first island
\* towards the second is TRUE, one add_bridge leaves both islands with
\* curr_bridges = max_bridges and check_solved TRUE, and solve_map ends
\* TRUE with that single bridge of one wire.
C18_TwoIslandScenario ==
    (HashiRunning /\ TwoIslands(puzzle)) =>
        /\ puzzle.edges = <<>> =>
               \A d \in 0 .. DIRECTIONS - 1 :
                   puzzle.nodes[1].neighbours[d + 1] = 2 =>
                       /\ can_build_bridge(puzzle, heap, 1, d) = "TRUE"
                       /\ LET a == add_bridge(puzzle, heap, 1, d)
                          IN /\ ~a.error
                             /\ AllSaturated(a.p)
                             /\ a.p.nodes[1].curr_bridges = 1
                             /\ a.p.nodes[2].curr_bridges = 1
                             /\ check_solved(a.p) = "TRUE"
        /\ phase = "hashiDone" =>
               /\ retval = "TRUE"
               /\ Len(puzzle.edges) = 1
               /\ heap[puzzle.edges[1]].wires = 1
               /\ AllSaturated(puzzle)

C18_Witness ==
    /\ phase = "hashiDone"
    /\ TwoIslands(puzzle)
    /\ Dist(puzzle, 1, 2) > 1
    /\ retval = "TRUE"
    /\ Len(puzzle.edges) = 1
    /\ puzzle.nodes[1].curr_bridges = 1
    /\ puzzle.nodes[2].curr_bridges = 1

\* C19: check_solved is TRUE exactly when every island has curr_bridges
\* equal to max_bridges, and whenever a call of solve_map has returned TRUE
\* every island has curr_bridges equal to max_bridges.
C19_GoalIsSaturation ==
    HashiRunning =>
        /\ check_solved(puzzle) = "TRUE" <=> AllSaturated(puzzle)
        /\ retval = "TRUE" => AllSaturated(puzzle)

C19_Witness ==
    /\ phase = "hashi"
    /\ retval = "TRUE"
    /\ Len(stack) >= 2
    /\ Len(puzzle.nodes) >= 3
    /\ AllSaturated(puzzle)

\* add_bridge(p, island, dir) and then remove_bridge(p, island, dir) leave
\* both islands with the curr_bridges they had and every bridge with the
\* wires and the symbol it had; a bridge that add_bridge made is left as
\* Bridge.__init__ makes it
UndoExact(pz, h, island, dir) ==
    LET a == add_bridge(pz, h, island, dir)
        r == remove_bridge(a.p, a.heap, island, dir)
        island2 == pz.nodes[island].neighbours[dir + 1]
    IN /\ ~a.error
       /\ ~r.error
       /\ r.p.nodes[island].curr_bridges = pz.nodes[island].curr_bridges
       /\ r.p.nodes[island2].curr_bridges = pz.nodes[island2].curr_bridges
       /\ \A id \in 1 .. Len(r.heap) :
              /\ r.heap[id].wires = IF id <= Len(h) THEN h[id].wires ELSE 0
              /\ r.heap[id].symbol = IF id <= Len(h) THEN h[id].symbol ELSE " "

\* C20: in every state of the search, for every island and direction for
\* which can_build_bridge is TRUE, add_bridge followed by remove_bridge
\* restores the wire count and the symbol of every bridge and the
\* curr_bridges of both islands.
C20_UndoExact ==
    HashiRunning =>
        \A i \in 1 .. Len(puzzle.nodes), d \in 0 .. DIRECTIONS - 1 :
            can_build_bridge(puzzle, heap, i, d) = "TRUE" =>
                UndoExact(puzzle, heap, i, d)

\* the search has removed a bridge, and a bridge of one wire can get a second
C20_Witness ==
    /\ phase = "hashi"
    /\ \E id \in 1 .. Len(heap) : heap[id].wires = 0
    /\ \E i \in 1 .. Len(puzzle.nodes), d \in 0 .. DIRECTIONS - 1 :
           /\ can_build_bridge(puzzle, heap, i, d) = "TRUE"
           /\ \E k \in EdgesOf(puzzle, heap, i, puzzle.nodes[i].neighbours[d + 1]) :
                  heap[puzzle.edges[k]].wires = 1

\* C11: every run of solve_map reaches a final result, TRUE or FALSE, after
\* finitely many steps.
C11_SearchTerminates ==
    <>(phase = "hashiDone" /\ retval \in {"TRUE", "FALSE"})

\* C21 -- breadth-first clone independence: when bfs applies a move to a
\* newly created neighbour entry, the board of the root position, the board
\* of the dequeued entry and the boards of the entries in the queue are
\* left as they were.
C21_CloneIndependence ==
    [][ (phase = "bfs" /\ bfs.pc = "for" /\ bfs'.k = bfs.k + 1) =>
            /\ board' = board
            /\ bfs'.curr.board = bfs.curr.board
            /\ \A i \in 1 .. Len(queue) : queue'[i].board = queue[i].board ]_vars

\* the board texts of the entries in the queue
QueueTexts == [i \in 1 .. Len(queue) |-> BoardStr(queue[i].board)]

C23_VisitedScoped ==
    /\ (phase = "vis2" /\ Len(stack) = 1 /\ Top.pc = "enter") => visited = {}
    /\ (phase = "vis2Done" /\ retEntry.tried = 0 /\ retval = "False") =>
           (vis_get_valid_moves(initBoard) = <<>> \/ max_depth = 0)

\* C24 -- the peg count tracks the moves stack: in every state of solve and
\* of dfs the number of pegs on the board is the initial number minus the
\* length of self.moves; every move of get_valid_moves, applied with
\* make_move, empties its origin and the jumped cell and fills the landing
\* cell, which takes one peg away; undo_move gives that peg back.
C24_PegCountTracksMoves ==
    phase \in {"solve", "solveDone", "dfs", "dfsDone"} =>
        /\ PegCount(board) = PegCount(initBoard) - Len(moves)
        /\ \A k \in 1 .. Len(get_valid_moves(board)) :
               LET m == get_valid_moves(board)[k]
                   r == make_move(board, moves, m)
               IN  /\ r.board = AfterJump(board, <<m[1], m[2]>>, m[3])
                   /\ PegCount(r.board) = PegCount(board) - 1
                   /\ PegCount(undo_move(r.board, r.moves).board) = PegCount(board)

\* three moves are applied, and the innermost loop has undone a move
C24_Witness ==
    /\ phase = "solve" /\ stack # <<>> /\ Top.pc = "loop" /\ Top.idx >= 2
    /\ Len(moves) >= 3
    /\ PegCount(board) = PegCount(initBoard) - Len(moves)

\* the digits that board b holds in the cells of the set S
DigitsIn(b, S) == {b[q] : q \in S} \ {"."}

\* the cells of row n, of column n and of box n
RowCells(n) == {<<n, j>> : j \in 0 .. SudokuN - 1}

ColCells(n) == {<<i, n>> : i \in 0 .. SudokuN - 1}

BoxCells(n) ==
    {<<(n \div BoxSide) * BoxSide + i, (n % BoxSide) * BoxSide + j>> :
        i \in 0 .. BoxSide - 1, j \in 0 .. BoxSide - 1}

\* the cells of S that board b has filled hold different digits
Distinct(b, S) ==
    Cardinality(DigitsIn(b, S)) = Cardinality({q \in S : b[q] # "."})

\* board b repeats no digit in a row, a column or a box
NoRepeatedDigit(b) ==
    \A n \in 0 .. SudokuN - 1 :
        Distinct(b, RowCells(n)) /\ Distinct(b, ColCells(n)) /\ Distinct(b, BoxCells(n))

\* C25 -- the sudoku constraint sets stay exact: from the first entry of
\* dfs_rec on, after every place and every undo, rows[r], cols[c] and
\* boxes[n] are the sets of the digits that the board holds in row r, in
\* column c and in box n (the initial board repeats no digit in a group).
C25_SetsExact ==
    (phase \in {"sdk", "sdkDone"} /\ NoRepeatedDigit(initBoard)) =>
        \A n \in 0 .. SudokuN - 1 :
            /\ rows[n] = DigitsIn(board, RowCells(n))
            /\ cols[n] = DigitsIn(board, ColCells(n))
            /\ boxes[n] = DigitsIn(board, BoxCells(n))

\* a digit is placed and the loop of the next call has undone another
C25_Witness ==
    /\ phase = "sdk"
    /\ Len(stack) >= 2 /\ Top.pc = "loop" /\ Top.k >= 2
    /\ board # initBoard
    /\ NoRepeatedDigit(initBoard)

\* C26 -- sudoku no mutation on failure: when a call of dfs_rec, at any
\* depth, has returned False, every cell of the board and every row,
\* column and box set is what it was when that call was entered.
C26_SdkNoMutationOnFailure ==
    (phase \in {"sdk", "sdkDone"} /\ retval = "False") =>
        /\ board = retEntry.board
        /\ rows = retEntry.rows
        /\ cols = retEntry.cols
        /\ boxes = retEntry.boxes

\* a nested call that placed and took back two digits has returned False
C26_Witness ==
    /\ phase = "sdk" /\ retval = "False" /\ stack # <<>>
    /\ retEntry.tried >= 2
    /\ retEntry.board # initBoard
    /\ board = retEntry.board

\* the islands of pz have the curr_bridges they have in e.p, and every
\* bridge of h has the wires and the symbol it has in e.heap; a bridge made
\* since is as Bridge.__init__ makes it
SameBridges(pz, h, e) ==
    /\ \A i \in 1 .. Len(pz.nodes) :
           pz.nodes[i].curr_bridges = e.p.nodes[i].curr_bridges
    /\ \A id \in 1 .. Len(h) :
           /\ h[id].wires = IF id <= Len(e.heap) THEN e.heap[id].wires ELSE 0
           /\ h[id].symbol = IF id <= Len(e.heap) THEN e.heap[id].symbol ELSE " "

\* C27 -- hashiwokakero no mutation on failure: when a call of solve_map, at
\* any depth, has returned FALSE, the curr_bridges of every island and the
\* wires and the symbol of every bridge are what they were when that call
\* was entered.
C27_HashiNoMutationOnFailure ==
    (/\ HashiRunning /\ phase # "crashed" /\ retval = "FALSE"
     /\ (stack # <<>> => Top.pc = "wait")) =>
        SameBridges(puzzle, heap, retEntry)

\* a nested call that built and removed bridges has returned FALSE
C27_Witness ==
    /\ phase = "hashi" /\ retval = "FALSE" /\ stack # <<>> /\ Top.pc = "wait"
    /\ Len(heap) > Len(retEntry.heap)
    /\ retEntry.p.edges # <<>>
    /\ SameBridges(puzzle, heap, retEntry)

\* the cells of b that hold a peg, and the cells of b that are void
PegCells(b) == {p \in Cells : b[p] > 0}
VoidCells(b) == {p \in Cells : b[p] = VOID}

\* b with its pegs numbered by their cells, as an initial board numbers them
Renumbered(b) == [p \in Cells |-> IF b[p] > 0 THEN PegId(p) ELSE b[p]]

\* b with the playable cell p switched between peg and empty
Switched(b, p) == [b EXCEPT ![p] = IF b[p] > 0 THEN EMPTY ELSE PegId(p)]

\* the boards that the board is compared with: the board, the initial board, the boards on
\* entry of the calls in progress, and for each of them the board with the
\* same pegs under other identifiers and the boards that differ in one cell
Comparands ==
    LET held == {board, initBoard} \cup
                {stack[i].entryBoard : i \in 1 .. Len(stack)}
    IN held \cup {Renumbered(b) : b \in held}
            \cup {Switched(board, p) : p \in Cells \ VoidCells(board)}

\* C28 -- the bit-packed encoding is exact: two boards with the same void
\* cells have equal encode_board integers if and only if they have pegs on
\* exactly the same cells; the identifiers of the pegs do not matter, and an
\* empty cell and a void cell both give the bit 0.
C28_EncodingExact ==
    (phase = "dfs" /\ stack # <<>> /\ Top.pc = "enter") =>
        \A e \in {encode_board(board)}, pegs \in {PegCells(board)},
           void \in {VoidCells(board)} :
            /\ \A b2 \in Comparands :
                   VoidCells(b2) = void =>
                       (encode_board(b2) = e <=> PegCells(b2) = pegs)
            /\ \A k \in 0 .. N * N - 1 :
                   board[CellAt(k)] \in {EMPTY, VOID} => N * N - 1 - k \notin e

\* dfs is about to prune a board at line 96: its encoding is the one of a
\* board seen before, and its pegs no longer carry the identifiers of their
\* cells
C28_Witness ==
    /\ phase = "dfs" /\ stack # <<>> /\ Top.pc = "enter"
    /\ board # Renumbered(board)
    /\ encode_board(board) = encode_board(Renumbered(board))
    /\ encode_board(board) # encode_board(initBoard)
    /\ encode_board(board) \in visited

\* C29 -- hashiwokakero degree bound: in every state reachable during
\* solve_map, no island has more curr_bridges than max_bridges.
C29_DegreeBound ==
    HashiRunning =>
        \A i \in 1 .. Len(puzzle.nodes) :
            puzzle.nodes[i].curr_bridges <= puzzle.nodes[i].max_bridges

\* the grid cells between the two islands of the bridge b
BridgeCells(pz, b) ==
    {Along(b.direction, pz.nodes[b.island1].x, pz.nodes[b.island1].y, j) :
         j \in 1 .. Dist(pz, b.island1, b.island2) - 1}

\* the grid cells between island a and its neighbour c
SpanCells(pz, a, c) ==
    {q \in (0 .. pz.nrows - 1) \X (0 .. pz.ncols - 1) :
        \/ /\ q[2] = pz.nodes[a].x /\ q[2] = pz.nodes[c].x
           /\ q[1] > SetMin({pz.nodes[a].y, pz.nodes[c].y})
           /\ q[1] < SetMax({pz.nodes[a].y, pz.nodes[c].y})
        \/ /\ q[1] = pz.nodes[a].y /\ q[1] = pz.nodes[c].y
           /\ q[2] > SetMin({pz.nodes[a].x, pz.nodes[c].x})
           /\ q[2] < SetMax({pz.nodes[a].x, pz.nodes[c].x})}

\* no two bridges of p.edges that carry a wire share a grid cell
NoCrossing(pz, h) ==
    \A i, k \in 1 .. Len(pz.edges) :
        (/\ pz.edges[i] # pz.edges[k]
         /\ h[pz.edges[i]].wires >= 1
         /\ h[pz.edges[k]].wires >= 1) =>
            BridgeCells(pz, h[pz.edges[i]]) \cap BridgeCells(pz, h[pz.edges[k]]) = {}

\* the bridges of p.edges without a wire, not skipped, that join other
\* islands than a and c and lie across the span from a to c
ZeroAcross(pz, h, a, c) ==
    {i \in 1 .. Len(pz.edges) :
        LET z == h[pz.edges[i]]
        IN /\ z.wires = 0 /\ ~z.skip /\ ~Joins(z, a, c)
           /\ BridgeCells(pz, z) \cap SpanCells(pz, a, c) # {}}

\* the bridges of h, those of ZeroAcross marked as skipped
ZeroSkipped(pz, h, a, c) ==
    [id \in 1 .. Len(h) |->
        IF \E i \in ZeroAcross(pz, h, a, c) : pz.edges[i] = id
        THEN [h[id] EXCEPT !.skip = TRUE] ELSE h[id]]

\* solve_map asks can_build_bridge for a direction with a neighbour across
\* whose span lies a bridge without a wire: when the answer without that
\* bridge is TRUE, the answer is TRUE
ZeroWireHarmless ==
    (/\ phase = "hashi" /\ stack # <<>> /\ Top.pc = "loop" /\ Top.dir < DIRECTIONS
     /\ puzzle.nodes[Top.idx + 1].neighbours[Top.dir + 1] # None) =>
        LET c == puzzle.nodes[Top.idx + 1].neighbours[Top.dir + 1]
        IN ZeroAcross(puzzle, heap, Top.idx + 1, c) # {} =>
               (can_build_bridge(puzzle, ZeroSkipped(puzzle, heap, Top.idx + 1, c),
                                 Top.idx + 1, Top.dir) = "TRUE"
                    => can_build_bridge(puzzle, heap, Top.idx + 1, Top.dir) = "TRUE")

\* C30 -- hashiwokakero no crossing bridges: in every state reachable during
\* solve_map no two bridges that each carry at least one wire occupy the
\* same grid cell, and a bridge whose wires went back to zero does not
\* prevent a crossing bridge from being built.
C30_NoCrossing ==
    HashiRunning => (NoCrossing(puzzle, heap) /\ ZeroWireHarmless)

RECURSIVE WireSum(_, _, _)
\* the wires of the bridges 1 .. k of h that end on island i
WireSum(h, i, k) ==
    IF k = 0 THEN 0
    ELSE WireSum(h, i, k - 1) +
         (IF h[k].island1 = i \/ h[k].island2 = i THEN h[k].wires ELSE 0)

\* C31 -- hashiwokakero wire accounting: in every state reachable during
\* solve_map each bridge has between 0 and 3 wires, and curr_bridges of each
\* island is the sum of the wires of the distinct bridges that end on it.
C31_WireAccounting ==
    HashiRunning =>
        /\ \A id \in 1 .. Len(heap) : heap[id].wires \in 0 .. FullWires
        /\ \A i \in 1 .. Len(puzzle.nodes) :
               puzzle.nodes[i].curr_bridges = WireSum(heap, i, Len(heap))

\* an island carries the wires of two bridges, one of them full, and
\* another bridge is back at no wire after remove_bridge
C31_Witness ==
    /\ phase = "hashi"
    /\ \E a, b, z \in 1 .. Len(heap) :
           /\ a # b /\ z # a /\ z # b
           /\ heap[a].wires = FullWires /\ heap[b].wires >= 1 /\ heap[z].wires = 0
           /\ heap[a].island1 = heap[b].island1
           /\ puzzle.nodes[heap[a].island1].curr_bridges = heap[a].wires + heap[b].wires

\* the pairs of islands that are neighbours of each other
NeighbourPairs(pz) ==
    {{i, pz.nodes[i].neighbours[d]} :
         i \in {k \in 1 .. Len(pz.nodes) : TRUE},
         d \in {e \in 1 .. DIRECTIONS : TRUE}} \ {{i, None} : i \in 1 .. Len(pz.nodes)}

\* p.edges[0 .. nbridges) names each pair of islands at most once
EachPairOnce(pz, h) ==
    \A i, k \in 1 .. Len(pz.edges) :
        i # k => {h[pz.edges[i]].island1, h[pz.edges[i]].island2} #
                 {h[pz.edges[k]].island1, h[pz.edges[k]].island2}

\* C32 -- hashiwokakero bridge list stays bounded: in every state reachable
\* during solve_map p.edges[0 .. nbridges) holds each pair of islands at most
\* once, so nbridges is at most the number of neighbouring pairs and at most
\* MAX_BRIDGES; add_bridge followed by remove_bridge leaves nbridges as it
\* was.
C32_BridgeListBounded ==
    HashiRunning =>
        /\ EachPairOnce(puzzle, heap)
        /\ Len(puzzle.edges) <= Cardinality(NeighbourPairs(puzzle))
        /\ Len(puzzle.edges) <= MAX_BRIDGES
        /\ (phase = "hashi" /\ stack # <<>> /\ Top.pc = "loop" /\ Top.dir < DIRECTIONS
            /\ can_build_bridge(puzzle, heap, Top.idx + 1, Top.dir) = "TRUE") =>
               LET a == add_bridge(puzzle, heap, Top.idx + 1, Top.dir)
                   r == remove_bridge(a.p, a.heap, Top.idx + 1, Top.dir)
               IN ~a.error => Len(r.p.edges) = Len(puzzle.edges)

\* the steps (row, column) of the directions w, a, s, d
JumpSteps == {<<-1, 0>>, <<0, -1>>, <<1, 0>>, <<0, 1>>}

\* b2 is b1 after the peg on orig jumped over its neighbour in direction d:
\* the origin and the jumped cell are empty, the landing cell holds the
\* peg, the landing cell was an empty playable cell
IsJump(b1, b2, orig, d) ==
    LET over == <<orig[1] + d[1], orig[2] + d[2]>>
        land == <<orig[1] + 2 * d[1], orig[2] + 2 * d[2]>>
    IN /\ over \in Cells /\ land \in Cells
       /\ b1[orig] > 0 /\ b1[over] > 0 /\ b1[land] = EMPTY
       /\ b2[orig] = EMPTY /\ b2[over] = EMPTY /\ b2[land] = b1[orig]
       /\ \A q \in Cells \ {orig, over, land} : b2[q] = b1[q]

\* the solvers that move pegs on `board` are running
PegSearch == phase \in {"solve", "dfs", "vis1", "vis2"}

\* C33 -- peg-solitaire frame: make_move of an enumerated move and undo_move
\* change only the origin, the jumped and the landing cell of the jump; a
\* void cell is never written, every other cell keeps its value, and no peg
\* identifier is on two cells at once.
C33_JumpFrame ==
    /\ [][ (PegSearch /\ phase' = phase /\ board' # board) =>
               \E orig \in {q \in Cells : board'[q] # board[q]}, d \in JumpSteps :
                   \/ Len(moves') = Len(moves) + 1 /\ IsJump(board, board', orig, d)
                   \/ Len(moves') = Len(moves) - 1 /\ IsJump(board', board, orig, d) ]_vars
    /\ [](PegSearch =>
            /\ \A q \in Cells : (board[q] = VOID) = (initBoard[q] = VOID)
            /\ Cardinality({board[q] : q \in PegCells(board)}) = PegCount(board))

\* three moves deep in solve, after an undo_move in this call
C33_Witness ==
    /\ phase = "solve" /\ stack # <<>> /\ Top.pc = "loop" /\ Top.idx >= 2
    /\ Len(moves) >= 3
    /\ \E q \in Cells : board[q] > 0 /\ board[q] # PegId(q)

\* C34 -- depth-limited search bound: at every entry to solve_dfs the depth
\* argument is the length of the moves stack and is the initial peg count
\* minus the current peg count; no move is applied when depth >= max_depth,
\* so the moves stack never holds more than max_depth moves; True is returned
\* only for a goal position reached with at most max_depth moves.
C34_DepthBound ==
    /\ []((VisRunning /\ stack # <<>> /\ Top.pc = "enter") =>
             /\ Top.depth = Len(moves)
             /\ Top.depth = PegCount(initBoard) - PegCount(board))
    /\ [][(VisRunning /\ Len(moves') > Len(moves)) =>
             (Top.depth < max_depth /\ Len(moves') = Top.depth + 1)]_vars
    /\ [](phase \in {"vis1", "vis1Done", "vis2", "vis2Done"} =>
             /\ Len(moves) <= max_depth
             /\ retval = "True" => (vis_is_solved(board) /\ Len(moves) <= max_depth))

\* solve_dfs is entered at depth max_depth, after max_depth moves
C34_Witness ==
    /\ VisRunning /\ stack # <<>> /\ Top.pc = "enter"
    /\ Top.depth = max_depth /\ Len(moves) = max_depth
    /\ ~vis_is_solved(board)
    /\ vis_get_valid_moves(board) # <<>>

\* C35 -- interactive jump requires a peg under the cursor: Player.jump
\* changes the board only when the cursor cell holds a peg, the next cell in
\* the chosen direction holds a peg and the cell two steps away is an empty
\* playable cell; after such a jump the peg count is one less and the cursor
\* is on the cell that now holds the jumping peg.
C35_JumpNeedsPeg ==
    [][ (phase = "play" /\ board' # board) =>
            \E j \in Dirs :
                LET over == jump_over(player_position, j)
                    land == jump_land(player_position, j)
                IN /\ over \in Cells /\ land \in Cells
                   /\ board[player_position] > 0
                   /\ board[over] > 0
                   /\ board[land] = EMPTY
                   /\ PegCount(board') = PegCount(board) - 1
                   /\ player_position' = land
                   /\ board'[land] = board[player_position] ]_vars

\* the game is running or has ended
PlayerRunning == phase \in {"play", "won", "lost", "quit"}

\* C36 -- interactive cursor stays on the board: after any sequence of
\* w/a/s/d cursor moves and jumps the position of the player is inside the
\* 7x7 grid and is not on a void cell.
C36_CursorOnBoard ==
    PlayerRunning =>
        /\ player_position \in Cells
        /\ board[player_position] # VOID

\* after a jump the cursor was walked up to the top row, beside a void cell
C36_Witness ==
    /\ phase = "play"
    /\ jumplist # <<>>
    /\ player_position = <<0, 2>>
    /\ board[<<0, 1>>] = VOID

===========================================================================
